---- MODULE Spec2Model ----
(***************************************************************************)
(* Verification model of the segment-execution core:                       *)
(*   - SegmentExpr leaf evaluators (batch cursor over chunked columns),    *)
(*     src/internal/core/src/exec/expression/Expr.h and the Unary /        *)
(*     BinaryRange leaves built on it;                                     *)
(*   - TaskQueue / TaskCursor, src/internal/core/src/exec/TaskCursor.*     *)
(* Each part has its own specification (SpecExpr, SpecQueue) over the      *)
(* shared variable tuple; the variables of the other part stay unchanged.  *)
(***************************************************************************)
EXTENDS Integers, Sequences, FiniteSets, TLC

\* ------------------------------------------------------------------ bounds
MaxRows == 5
MaxChunkRows == 2
MaxBatchSize == 3
MaxBatches == 4
\* batches one driver emits before end-of-stream
MaxBatchesPerProducer == 2
\* the configured maximum depth of the task queue
MaxQueueDepth == 1
\* chunks a column may grow to, elements of one set_data_raw, writer calls
MaxColChunks == 3
MaxAppendLen == 3
MaxAppends == 2
\* bool chunks appended to one bitset
MaxBitChunks == 3
\* active rows of the segment a plan node is visited on
MaxActiveCount == 3
\* rows of one batch of a logical expression, children of a conjunction
MaxVecLen == 2
MaxInputs == 3
\* rows handed to one call of a leaf evaluator or kernel
MaxLeafRows == 2

\* ------------------------------------------------------- program constants
\* std::numeric_limits<int8_t>::min() / max(), the column type T of the
\* BinaryRange leaf in this model (DataType::INT8 branch of Eval).
Int8Min == -128
Int8Max == 127
\* sizeof(BitsetBlockType): a bitset block has 64 bits
BITSET_BLOCK_SIZE == 8
BITSET_BLOCK_BIT_SIZE == BITSET_BLOCK_SIZE * 8

None == "None"

VARIABLES
    \* ---- SegmentExpr (Expr.h) ----
    segment_,                   \* the segment contract: type, HasIndex
    expr_,                      \* the logical expression of the leaf
    batch_size_,
    is_index_mode_,
    num_rows_,
    num_data_chunk_,
    num_index_chunk_,
    current_data_chunk_,
    current_data_chunk_pos_,
    current_index_chunk_,
    current_index_chunk_pos_,
    size_per_chunk_,
    batches,                    \* the vectors returned by successive Eval calls
    eval_state,                 \* "running" | "eos" (Eval returned nullptr) | "raised"
    last_batch_size,            \* value GetNextBatchSize returned in the last Eval
    ub_seen,                    \* a write past the result buffer or a negative size happened
    \* ---- TaskQueue (TaskCursor.h:73-82) ----
    queue_,                     \* std::queue<TaskQueueEntry>: the queued vectors
    num_producers_,             \* std::optional<int32_t>: <<>> or <<n>>
    producers_finished_,
    consumer_blocked_,
    consumer_future_,           \* consumer_promise_ / consumer_future_: "none" | "pending" | "ready"
    closed_,
    \* ---- TaskCursor (TaskCursor.h:116-126) and its caller ----
    started_,
    at_end_,
    current_,                   \* RowVectorPtr: <<>> (nullptr) or <<vector>>
    pc_consumer,                \* where the consumer thread is
    move_next_result,           \* outcome of the last MoveNext: "none" | "true" | "false" | "rethrow"
    move_next_false,            \* MoveNext has returned false
    dtor_cancelled,             \* ~TaskCursor called task->RequestCancel()
    \* ---- Task and its drivers (exec/Task.h) ----
    task_state,                 \* "Created" | "Running" | "Done" | "Cancelled" | "Failed"
    task_error,                 \* task->error() is set
    cancel_requested,
    num_drivers,                \* num_splitgroups_ * task_->NumOutputDrivers()
    pc_producer,                \* per driver: "idle" | "boundary" | "enqueue" | "stopped"
    held,                       \* per driver: the argument of its pending Enqueue
    produced,                   \* per driver: vectors accepted by Enqueue so far
    eval_raised,                \* per driver: its evaluator raised
    enq_result,                 \* per driver: outcome of its last Enqueue
    sentinel_sent,              \* per driver: Enqueue(nullptr) was called
    \* ---- history ----
    enq_log,                    \* vectors in the order Enqueue accepted them
    deq_log,                    \* vectors in the order Dequeue returned them
    \* ---- ThreadSafeVector / ConcurrentVectorImpl (ConcurrentVector.h) ----
    size_,                      \* std::atomic<int64_t>: the published chunk count
    vec_,                       \* the chunk list: a sequence of chunks
    mutex_,                     \* std::shared_mutex: "free" | "exclusive" | "shared"
    col_size_per_chunk_,        \* VectorBase::size_per_chunk_ of the column
    is_velox_vector,            \* the ConcurrentVectorImpl<Type, true, true> specialisation
    sizeof_type,                \* sizeof(Type) of the column's element type
    pc_writer,                  \* where the writer thread is inside set_data_raw / clear
    w_offset,                   \* element_offset of the running set_data_raw
    w_source,                   \* its source elements
    w_fills,                    \* the fill_chunk calls set_data still has to make
    w_created,                  \* chunk ids its grow_to_at_least has appended
    pc_reader,                  \* where the reader thread is inside operator[]
    r_index,                    \* the chunk index the reader asked for
    r_result,                   \* "none" | "raised" | "ref" | "out_of_range_read"
    r_ref_valid,                \* the reference the reader holds still points at its chunk
    r_unfilled,                 \* the reader dereferenced a chunk that was still being filled
    col_ub,                     \* a fill_chunk wrote outside its chunk
    col_rows,                   \* the logical rows the completed writes should have stored
    col_chunks,                 \* the chunk count the completed writes should have grown to
    appends_done,
    \* ---- AppendOneChunk (ExecPlanNodeVisitor.cpp:78-132) ----
    bitset_holder,              \* BitsetType: its 64-bit blocks (8 bytes each) and bit count
    bool_chunks,                \* the bool chunks appended so far, in order
    \* ---- ExecPlanNodeVisitor (ExecPlanNodeVisitor.cpp:161-299) ----
    pc_visit,                   \* "idle" | "filter" | "exec" | "mask" | "decide" | "done"
    node_kind,                  \* "search" | "retrieve" | "count" (is_count_)
    node_filter,                \* "filter_plannode_" | "predicate_" | "none"
    active_count,               \* segment->get_active_count(timestamp_)
    predicate_rows,             \* row r satisfies the filter predicate P
    deleted_rows,               \* row r is deleted as of timestamp_
    hidden_rows,                \* row r is not visible as of timestamp_
    eval_batch_size,            \* rows of one vector returned by task->Next()
    holder_allocated,           \* bitset_holder points at a BitsetType
    next_row,                   \* rows task->Next() has returned so far
    visit_result,               \* "none" | "empty" | "vector_search" | "count" | "rows" | "crashed"
    cnt,                        \* the value of a count retrieve
    null_deref,                 \* a null bitset_holder was dereferenced
    \* ---- PhyLogicalBinaryExpr, PhyConjunctFilterExpr ----
    pc_logic,                   \* "idle" | "loop" (inside PhyConjunctFilterExpr::Eval) | "done"
    op_type_,                   \* expr_->op_type_ of the logical binary node
    ldata,                      \* what inputs_[0]->Eval returned, before the operation
    rdata,                      \* what inputs_[1]->Eval returned
    is_and_,                    \* conjunction (TRUE) or disjunction (FALSE)
    inputs_,                    \* the batch results of the children of the conjunct node
    loop_i,                     \* i of the loop of PhyConjunctFilterExpr::Eval
    flat_result,                \* the local FlatVectorPtr handed to UpdateResult
    active_rows,                \* what the last UpdateResult returned
    child_cursor,               \* per child of the conjunct node: rows its cursor has advanced
    eval_result,                \* VectorPtr& result: what Eval returns to its caller
    \* ---- leaf evaluators and SIMD kernels, one call each ----
    pc_leaf,                    \* "idle" | "done"
    leaf_call,                  \* the function called and its arguments
    leaf_out                    \* [status: "ok" | "raised" | "unset", res: the bools written]

exprVars == <<segment_, expr_, batch_size_, is_index_mode_, num_rows_,
              num_data_chunk_, num_index_chunk_, current_data_chunk_,
              current_data_chunk_pos_, current_index_chunk_,
              current_index_chunk_pos_, size_per_chunk_, batches, eval_state,
              last_batch_size, ub_seen>>

queueVars == <<queue_, num_producers_, producers_finished_, consumer_blocked_,
               consumer_future_, closed_>>
cursorVars == <<started_, at_end_, current_, pc_consumer, move_next_result,
                move_next_false, dtor_cancelled>>
taskVars == <<task_state, task_error, cancel_requested, num_drivers>>
driverVars == <<pc_producer, held, produced, eval_raised, enq_result,
                sentinel_sent>>
logVars == <<enq_log, deq_log>>
runtimeVars == <<queueVars, cursorVars, taskVars, driverVars, logVars>>

lockedVecVars == <<size_, vec_, mutex_>>
columnVars == <<col_size_per_chunk_, is_velox_vector, sizeof_type>>
writerVars == <<pc_writer, w_offset, w_source, w_fills, w_created>>
readerVars == <<pc_reader, r_index, r_result, r_ref_valid, r_unfilled>>
storeLogVars == <<col_ub, col_rows, col_chunks, appends_done>>
storeVars == <<lockedVecVars, columnVars, writerVars, readerVars, storeLogVars>>

bitsetVars == <<bitset_holder, bool_chunks>>

planVars == <<node_kind, node_filter, active_count, predicate_rows,
              deleted_rows, hidden_rows, eval_batch_size>>
visitVars == <<pc_visit, planVars, holder_allocated, next_row, visit_result,
               cnt, null_deref>>

binaryVars == <<op_type_, ldata, rdata>>
conjunctVars == <<is_and_, inputs_, loop_i, flat_result, active_rows,
                  child_cursor>>
logicVars == <<pc_logic, binaryVars, conjunctVars, eval_result>>

leafVars == <<pc_leaf, leaf_call, leaf_out>>

vars == <<exprVars, runtimeVars, storeVars, bitsetVars, visitVars, logicVars,
          leafVars>>

\* what each part leaves alone: the variables of the other parts
exprFrame == <<runtimeVars, storeVars, bitsetVars, visitVars, logicVars,
    leafVars>>
queueFrame == <<exprVars, storeVars, bitsetVars, visitVars, logicVars,
    leafVars>>
storeFrame == <<exprVars, runtimeVars, bitsetVars, visitVars, logicVars,
    leafVars>>
bitsetFrame == <<exprVars, runtimeVars, storeVars, visitVars, logicVars,
    leafVars>>
\* a visit of a plan node fills bitset_holder through AppendOneChunk
visitFrame == <<exprVars, runtimeVars, storeVars, logicVars,
    leafVars>>
logicFrame == <<exprVars, runtimeVars, storeVars, bitsetVars, visitVars,
    leafVars>>
leafFrame == <<exprVars, runtimeVars, storeVars, bitsetVars, visitVars,
    logicVars>>

\* ------------------------------------------------------------------ helpers
Min(a, b) == IF a <= b THEN a ELSE b

RECURSIVE Flatten(_)
Flatten(ss) == IF ss = <<>> THEN <<>> ELSE Head(ss) \o Flatten(Tail(ss))

RECURSIVE SumSizes(_)
SumSizes(ss) == IF ss = <<>> THEN 0 ELSE Len(Head(ss)) + SumSizes(Tail(ss))

\* upper_div(n, d) of the segment contract: number of chunks covering n rows
UpperDiv(n, d) == (n + d - 1) \div d

\* ------------------------------------------------------------- BitsetType
\* boost::dynamic_bitset<BitsetBlockType>: blocks of BITSET_BLOCK_SIZE bytes,
\* least significant byte first, and the number of bits held
EmptyBitset == [blocks |-> <<>>, num_bits |-> 0]
ZeroBlock == <<0, 0, 0, 0, 0, 0, 0, 0>>

\* bit b of byte x
ByteBit(x, b) == (x \div (2 ^ b)) % 2 = 1

\* block with bit pos set to bit (the bit is clear before)
SetBlockBit(block, pos, bit) ==
    [block EXCEPT ![(pos \div 8) + 1] =
        IF bit /\ ~ByteBit(@, pos % 8) THEN @ + 2 ^ (pos % 8) ELSE @]

\* dynamic_bitset::push_back(bit)
push_back(bs, bit) ==
    IF bs.num_bits % BITSET_BLOCK_BIT_SIZE = 0
    THEN [blocks |-> Append(bs.blocks, SetBlockBit(ZeroBlock, 0, bit)),
          num_bits |-> bs.num_bits + 1]
    ELSE [blocks |-> [bs.blocks EXCEPT ![Len(bs.blocks)] =
                        SetBlockBit(@, bs.num_bits % BITSET_BLOCK_BIT_SIZE, bit)],
          num_bits |-> bs.num_bits + 1]

\* dynamic_bitset::append(block): the block's bits, lowest first, go after
\* the bits held
RECURSIVE AppendBlockBits(_, _, _)
AppendBlockBits(bs, val, j) ==
    IF j = BITSET_BLOCK_BIT_SIZE THEN bs
    ELSE AppendBlockBits(push_back(bs, ByteBit(val[(j \div 8) + 1], j % 8)),
                         val, j + 1)
append(bs, val) ==
    IF bs.num_bits % BITSET_BLOCK_BIT_SIZE = 0
    THEN [blocks |-> Append(bs.blocks, val),
          num_bits |-> bs.num_bits + BITSET_BLOCK_BIT_SIZE]
    ELSE AppendBlockBits(bs, val, 0)

\* dynamic_bitset::test(j) / operator[](j)
TestBit(bs, j) ==
    ByteBit(bs.blocks[(j \div BITSET_BLOCK_BIT_SIZE) + 1]
                     [((j % BITSET_BLOCK_BIT_SIZE) \div 8) + 1], j % 8)

\* ---------------------------------------------------------- AppendOneChunk
\* a byte packing that puts the first bool of each group of 8 in the highest bit
RECURSIVE BlockByte_BitsReversed(_, _, _)
BlockByte_BitsReversed(ptr, at, j) ==
    IF j = 8 THEN 0
    ELSE (IF ptr[at + j + 1] THEN 2 ^ (7 - j) ELSE 0) +
         BlockByte_BitsReversed(ptr, at, j + 1)
\* vals[k] after the loops: vals[k] |= uint8_t(*(ptr + k * 8 + j)) << j, j < 8
RECURSIVE BlockByte(_, _, _)
BlockByte(ptr, at, j) ==
    IF j = 8 THEN 0
    ELSE (IF ptr[at + j + 1] THEN 2 ^ j ELSE 0) + BlockByte(ptr, at, j + 1)

\* val |= BitsetBlockType(vals[j]) << (8 * j): the block made of the 64
\* bools at ptr + at (get_bitset_block returns the same word)
BlockOf(ptr, at) ==
    <<BlockByte(ptr, at, 0), BlockByte(ptr, at + 8, 0),
      BlockByte(ptr, at + 16, 0), BlockByte(ptr, at + 24, 0),
      BlockByte(ptr, at + 32, 0), BlockByte(ptr, at + 40, 0),
      BlockByte(ptr, at + 48, 0), BlockByte(ptr, at + 56, 0)>>

\* AppendBlock(ptr, n): n blocks, ptr advancing by BITSET_BLOCK_SIZE * 8
RECURSIVE AppendBlock(_, _, _, _)
AppendBlock(result, ptr, at, n) ==
    IF n = 0 THEN result
    ELSE AppendBlock(append(result, BlockOf(ptr, at)), ptr,
                     at + BITSET_BLOCK_SIZE * 8, n - 1)

\* AppendBit(ptr, n): n bits, one push_back each; the push of one round is
\* complete before the next round starts
RECURSIVE AppendBit(_, _, _, _)
AppendBit(result, ptr, at, n) ==
    IF n = 0 THEN result
    ELSE LET pushed == push_back(result, ptr[at + 1])
         IN  IF pushed.num_bits > result.num_bits
             THEN AppendBit(pushed, ptr, at + 1, n - 1)
             ELSE pushed

\* n_prefix: the bits that complete the partial last block
PrefixLen(res_len, chunk_len) ==
    IF res_len % BITSET_BLOCK_BIT_SIZE = 0 THEN 0
    ELSE Min(BITSET_BLOCK_BIT_SIZE - (res_len % BITSET_BLOCK_BIT_SIZE), chunk_len)

AppendOneChunk(result, chunk_ptr) ==
    LET chunk_len == Len(chunk_ptr)
        res_len == result.num_bits
        n_prefix == PrefixLen(res_len, chunk_len)
        after_prefix == AppendBit(result, chunk_ptr, 0, n_prefix)
        n_block == (chunk_len - n_prefix) \div BITSET_BLOCK_BIT_SIZE
        n_suffix == (chunk_len - n_prefix) % BITSET_BLOCK_BIT_SIZE
    IN  IF n_prefix = chunk_len THEN after_prefix
        ELSE AppendBit(AppendBlock(after_prefix, chunk_ptr, n_prefix, n_block),
                       chunk_ptr, n_prefix + n_block * BITSET_BLOCK_BIT_SIZE,
                       n_suffix)

\* an empty bitset, nothing appended: also what the bitset variables keep
\* while another part is checked
BitsetIdle == bitset_holder = EmptyBitset /\ bool_chunks = <<>>

\* ------------------------------------------- ExecPlanNodeVisitor construction
\* no plan node visited yet: search_result_opt_ and retrieve_result_opt_ empty
VisitIdle ==
    /\ pc_visit = "idle"
    /\ node_kind = "none" /\ node_filter = "none"
    /\ active_count = 0
    /\ predicate_rows = <<>> /\ deleted_rows = <<>> /\ hidden_rows = <<>>
    /\ eval_batch_size = 1
    /\ holder_allocated = FALSE
    /\ next_row = 0
    /\ visit_result = "none"
    /\ cnt = 0
    /\ null_deref = FALSE

\* ------------------------------------ logical expression node construction
\* no logical node evaluated yet
LogicIdle ==
    /\ pc_logic = "idle"
    /\ op_type_ = None /\ ldata = <<>> /\ rdata = <<>>
    /\ is_and_ = FALSE /\ inputs_ = <<>>
    /\ loop_i = 0
    /\ flat_result = <<>>
    /\ active_rows = 0
    /\ child_cursor = <<>>
    /\ eval_result = <<>>

\* ------------------------------------------------ leaf evaluator construction
\* no leaf evaluator or kernel called yet
LeafIdle ==
    /\ pc_leaf = "idle"
    /\ leaf_call = [fn |-> "none"]
    /\ leaf_out = [status |-> "unset", res |-> <<>>]

\* --------------------------------------- ConcurrentVectorImpl construction
\* an empty ThreadSafeVector, no writer or reader inside it
ColumnInit ==
    /\ size_ = 0 /\ vec_ = <<>> /\ mutex_ = "free"
    /\ pc_writer = "idle" /\ w_offset = 0 /\ w_source = <<>>
    /\ w_fills = <<>> /\ w_created = {}
    /\ pc_reader = "idle" /\ r_index = 0 /\ r_result = "none"
    /\ r_ref_valid = FALSE /\ r_unfilled = FALSE
    /\ col_ub = FALSE /\ col_chunks = 0 /\ appends_done = 0
    /\ col_rows = [r \in 0..(MaxColChunks * col_size_per_chunk_ - 1) |-> 0]

\* the values the column variables keep while another part is checked
StoreIdle ==
    /\ col_size_per_chunk_ = 1 /\ is_velox_vector = FALSE /\ sizeof_type = 1
    /\ ColumnInit

\* ------------------------------------------------- TaskCursor construction
\* the output drivers a task may have; a cursor's task has one or two
Drivers == {1, 2}

\* TaskCursor::TaskCursor: a fresh TaskQueue and a created task with n output
\* drivers; nothing started yet.
CursorInit(n) ==
    /\ queue_ = <<>>
    /\ num_producers_ = <<>>
    /\ producers_finished_ = 0
    /\ consumer_blocked_ = FALSE
    /\ consumer_future_ = "none"
    /\ closed_ = FALSE
    /\ started_ = FALSE
    /\ at_end_ = FALSE
    /\ current_ = <<>>
    /\ pc_consumer = "idle"
    /\ move_next_result = "none"
    /\ move_next_false = FALSE
    /\ dtor_cancelled = FALSE
    /\ task_state = "Created"
    /\ task_error = FALSE
    /\ cancel_requested = FALSE
    /\ num_drivers = n
    /\ pc_producer = [p \in Drivers |-> "idle"]
    /\ held = [p \in Drivers |-> <<>>]
    /\ produced = [p \in Drivers |-> 0]
    /\ eval_raised = [p \in Drivers |-> FALSE]
    /\ enq_result = [p \in Drivers |-> "none"]
    /\ sentinel_sent = [p \in Drivers |-> FALSE]
    /\ enq_log = <<>>
    /\ deq_log = <<>>

\* ---------------------------------------------------------------- segment
\* Value stored at position p of data chunk i: column `id` holds the row
\* number (spec scenario 1: rows [0..999]).  Chunk i of a growing segment
\* starts at logical offset i * size_per_chunk; a sealed segment has a single
\* chunk.
ChunkData(i, p) ==
    IF segment_.type = "Growing" THEN i * size_per_chunk_ + p ELSE p

\* FlatVector(DataType::BOOL, length): a value-initialised bool buffer
FlatVector(length) == [k \in 1..length |-> FALSE]

\* ---------------------------------------------------------- the predicates
\* UnaryElementFunc<T, LessThan>: res[i] = src[i] < val
UnaryElementFunc(src, val) == src < val

\* BinaryRangeElementFunc<T, lower_inclusive, upper_inclusive>
BinaryRangeElementFunc(val1, val2, li, ui, src) ==
    (IF li THEN val1 <= src ELSE val1 < src) /\
    (IF ui THEN src <= val2 ELSE src < val2)

\* milvus::query::gt_ub<T> / lt_lb<T> for T = int8_t
gt_ub(v) == v > Int8Max
lt_lb(v) == v < Int8Min

\* PreCheckOverflow: whether it returns a vector (the collapsed predicate, res)
\* rather than nullptr, together with the clamped bounds handed to the element / index function.
PreCheckOverflow(batch_size) ==
    LET val1 == expr_.lower_val_
        val2 == expr_.upper_val_
        lo == IF lt_lb(val1) THEN [v |-> Int8Min, incl |-> TRUE]
              ELSE [v |-> val1, incl |-> expr_.lower_inclusive_]
        hi == IF gt_ub(val2) THEN [v |-> Int8Max, incl |-> TRUE]
              ELSE [v |-> val2, incl |-> expr_.upper_inclusive_]
    IN  [early |-> gt_ub(val1) \/ (~gt_ub(val2) /\ lt_lb(val2)),
         res |-> FlatVector(batch_size),
         val1 |-> lo.v, lower_inclusive |-> lo.incl,
         val2 |-> hi.v, upper_inclusive |-> hi.incl]

\* The element function a leaf hands to ProcessDataChunks (execute_sub_batch),
\* applied to one source value.
ExecuteSubBatch(src) ==
    IF expr_.kind = "Unary" THEN UnaryElementFunc(src, expr_.val_)
    ELSE LET c == PreCheckOverflow(0)
         IN  BinaryRangeElementFunc(c.val1, c.val2, c.lower_inclusive,
                                    c.upper_inclusive, src)

\* The scalar index capability over one index chunk (Range(val, op) /
\* Range(lo, lo_incl, hi, hi_incl)): a bool vector over the rows of the chunk.
ScalarIndexRange(n) == [k \in 1..n |-> ExecuteSubBatch(k - 1)]

\* What the predicate means for the value of row r (mathematical integers).
Predicate(r) ==
    IF expr_.kind = "Unary" THEN r < expr_.val_
    ELSE (IF expr_.lower_inclusive_ THEN expr_.lower_val_ <= r
          ELSE expr_.lower_val_ < r) /\
         (IF expr_.upper_inclusive_ THEN r <= expr_.upper_val_
          ELSE r < expr_.upper_val_)

\* ------------------------------------------------------------- SegmentExpr
GetNextBatchSize ==
    LET current_chunk == IF is_index_mode_ THEN current_index_chunk_
                         ELSE current_data_chunk_
        current_chunk_pos == IF is_index_mode_ THEN current_data_chunk_pos_
                             ELSE current_index_chunk_pos_
        current_rows == IF segment_.type = "Growing"
                        THEN current_chunk * size_per_chunk_ + current_chunk_pos
                        ELSE current_chunk_pos
    IN  IF current_rows + batch_size_ >= num_rows_
        THEN num_rows_ - current_rows
        ELSE batch_size_

\* func(data, size, res + processed_size, values...): writes res[processed + k]
\* for k < size; a write past the end of the result buffer is dropped here and
\* never happens in a reachable state (see NoWritePastResult).
WriteChunk(res, i, data_pos, size, processed) ==
    [k \in DOMAIN res |->
        IF k - 1 >= processed /\ k - 1 < processed + size
        THEN ExecuteSubBatch(ChunkData(i, data_pos + (k - 1 - processed)))
        ELSE res[k]]

\* The loop of ProcessDataChunks from chunk i on; st carries res, the
\* processed_size and the cursor as the loop leaves it.
RECURSIVE ProcessDataChunksFrom(_, _)
ProcessDataChunksFrom(i, st) ==
    IF i >= num_data_chunk_ THEN st
    ELSE
    LET data_pos == IF i = current_data_chunk_ THEN current_data_chunk_pos_ ELSE 0
        size0 == IF i = num_data_chunk_ - 1
                 THEN (IF segment_.type = "Growing"
                       THEN (num_rows_ % size_per_chunk_) - data_pos
                       ELSE num_rows_ - data_pos)
                 ELSE size_per_chunk_ - data_pos
        size == IF st.processed_size + size0 >= batch_size_
                THEN batch_size_ - st.processed_size
                ELSE size0
        processed == st.processed_size + size
        written == [st EXCEPT !.res = WriteChunk(st.res, i, data_pos, size,
                                                 st.processed_size),
                              !.processed_size = processed,
                              !.max_write = IF size > 0 /\ processed > st.max_write
                                            THEN processed ELSE st.max_write,
                              !.neg_size = st.neg_size \/ size < 0]
    IN  IF processed >= batch_size_
        THEN [written EXCEPT !.chunk = i, !.pos = data_pos + size]
        ELSE ProcessDataChunksFrom(i + 1, written)

ProcessDataChunks(res) ==
    ProcessDataChunksFrom(current_data_chunk_,
        [res |-> res, processed_size |-> 0,
         chunk |-> current_data_chunk_, pos |-> current_data_chunk_pos_,
         max_write |-> 0, neg_size |-> FALSE])

\* ProcessIndexOneChunk: the slice of chunk_res appended to result
ProcessIndexOneChunk(chunk_id, chunk_res, processed_rows) ==
    LET data_pos == IF chunk_id = current_index_chunk_
                    THEN current_index_chunk_pos_ ELSE 0
        size == Min(Min(size_per_chunk_ - data_pos, batch_size_ - processed_rows),
                    Len(chunk_res))
    IN  [size |-> size,
         slice |-> [k \in 1..size |-> chunk_res[data_pos + k]]]

RECURSIVE ProcessIndexChunksFrom(_, _)
ProcessIndexChunksFrom(i, st) ==
    IF i >= num_index_chunk_ THEN st
    ELSE
    LET chunk_res == ScalarIndexRange(num_rows_)
        one == ProcessIndexOneChunk(i, chunk_res, st.processed_rows)
        appended == [st EXCEPT !.res = st.res \o one.slice]
    IN  IF st.processed_rows + one.size >= batch_size_
        \* current_index_chunk_ = i is assigned first, so the conditional
        \* `i == current_index_chunk_ ? pos + size : size` takes its first arm
        THEN [appended EXCEPT !.chunk = i,
                              !.pos = current_index_chunk_pos_ + one.size]
        ELSE ProcessIndexChunksFrom(i + 1,
                 [appended EXCEPT !.processed_rows = st.processed_rows + one.size])

ProcessIndexChunks ==
    ProcessIndexChunksFrom(current_index_chunk_,
        [res |-> <<>>, processed_rows |-> 0,
         chunk |-> current_index_chunk_, pos |-> current_index_chunk_pos_])

\* ----------------------------------------------------- SpecExpr: the leaves
SegmentSet == { [type |-> "Growing", has_index |-> FALSE],
                [type |-> "Sealed", has_index |-> FALSE],
                [type |-> "Sealed", has_index |-> TRUE] }

LowerLiterals == { Int8Min - 1, 1, Int8Max + 1 }
UpperLiterals == { Int8Min - 1, 3, Int8Max + 1 }

ExprSet ==
    { [kind |-> "Unary", val_ |-> 2, lower_val_ |-> 0, upper_val_ |-> 0,
       lower_inclusive_ |-> FALSE, upper_inclusive_ |-> FALSE] } \cup
    { [kind |-> "BinaryRange", val_ |-> 0, lower_val_ |-> lo, upper_val_ |-> hi,
       lower_inclusive_ |-> li, upper_inclusive_ |-> ui] :
         lo \in LowerLiterals, hi \in UpperLiterals,
         li \in BOOLEAN, ui \in BOOLEAN }

\* SegmentExpr constructor + InitSegmentExpr, over the segment contract
\* (get_active_count, size_per_chunk, HasIndex, num_chunk_data / _index).
InitExpr ==
    /\ segment_ \in SegmentSet
    /\ expr_ \in ExprSet
    /\ num_rows_ \in 0..MaxRows
    /\ size_per_chunk_ \in (IF segment_.type = "Growing" THEN 1..MaxChunkRows
                            ELSE {num_rows_})
    /\ batch_size_ \in 1..MaxBatchSize
    /\ batch_size_ > 0
    /\ segment_.type = "Growing" => batch_size_ > size_per_chunk_
    /\ is_index_mode_ = segment_.has_index
    /\ num_index_chunk_ = IF is_index_mode_ THEN 1 ELSE 0
    /\ num_data_chunk_ = IF is_index_mode_ THEN 0
                         ELSE IF segment_.type = "Growing"
                              THEN UpperDiv(num_rows_, size_per_chunk_)
                              ELSE 1
    /\ current_data_chunk_ = 0
    /\ current_data_chunk_pos_ = 0
    /\ current_index_chunk_ = 0
    /\ current_index_chunk_pos_ = 0
    /\ batches = <<>>
    /\ eval_state = "running"
    /\ last_batch_size = -1
    /\ ub_seen = FALSE
    /\ CursorInit(1)
    /\ StoreIdle
    /\ BitsetIdle
    /\ VisitIdle
    /\ LogicIdle
    /\ LeafIdle

segVars == <<segment_, expr_, batch_size_, is_index_mode_, num_rows_,
             num_data_chunk_, num_index_chunk_, size_per_chunk_>>
dataCursor == <<current_data_chunk_, current_data_chunk_pos_>>
indexCursor == <<current_index_chunk_, current_index_chunk_pos_>>

\* `return nullptr` when real_batch_size == 0
ReturnNull(real_batch_size) ==
    /\ real_batch_size = 0
    /\ eval_state' = "eos"
    /\ last_batch_size' = real_batch_size
    /\ UNCHANGED <<batches, dataCursor, indexCursor, ub_seen>>

\* the tail of ExecRangeVisitorImplForData: allocate res_vec, run
\* ProcessDataChunks, return res_vec
DataPath(real_batch_size) ==
    LET st == ProcessDataChunks(FlatVector(real_batch_size))
    IN  /\ batches' = Append(batches, st.res)
        /\ current_data_chunk_' = st.chunk
        /\ current_data_chunk_pos_' = st.pos
        /\ ub_seen' = (ub_seen \/ st.neg_size \/ st.max_write > real_batch_size)
        /\ last_batch_size' = real_batch_size
        /\ UNCHANGED <<indexCursor, eval_state>>

\* the tail of ExecRangeVisitorImplForIndex: ProcessIndexChunks, then
\* AssertInfo(res.size() == real_batch_size)
IndexPath(real_batch_size) ==
    LET st == ProcessIndexChunks
    IN  /\ current_index_chunk_' = st.chunk
        /\ current_index_chunk_pos_' = st.pos
        /\ last_batch_size' = real_batch_size
        /\ IF Len(st.res) = real_batch_size
           THEN batches' = Append(batches, st.res) /\ UNCHANGED eval_state
           ELSE eval_state' = "raised" /\ UNCHANGED batches
        /\ UNCHANGED <<dataCursor, ub_seen>>

\* the early return of the collapsed predicate: the cursor is left alone
OverflowPath(real_batch_size, res) ==
    /\ batches' = Append(batches, res)
    /\ last_batch_size' = real_batch_size
    /\ UNCHANGED <<dataCursor, indexCursor, eval_state, ub_seen>>

CanEval == eval_state = "running" /\ Len(batches) < MaxBatches

\* PhyUnaryRangeFilterExpr::Eval, data mode
EvalUnaryData ==
    /\ CanEval /\ expr_.kind = "Unary" /\ ~is_index_mode_
    /\ LET real_batch_size == GetNextBatchSize
       IN  IF real_batch_size = 0 THEN ReturnNull(real_batch_size)
           ELSE DataPath(real_batch_size)
    /\ UNCHANGED <<segVars, exprFrame>>

\* PhyUnaryRangeFilterExpr::Eval, index mode
EvalUnaryIndex ==
    /\ CanEval /\ expr_.kind = "Unary" /\ is_index_mode_
    /\ LET real_batch_size == GetNextBatchSize
       IN  IF real_batch_size = 0 THEN ReturnNull(real_batch_size)
           ELSE IndexPath(real_batch_size)
    /\ UNCHANGED <<segVars, exprFrame>>

\* PhyBinaryRangeFilterExpr::Eval, data mode
EvalBinaryRangeData ==
    /\ CanEval /\ expr_.kind = "BinaryRange" /\ ~is_index_mode_
    /\ LET real_batch_size == GetNextBatchSize
           pre == PreCheckOverflow(real_batch_size)
       IN  IF real_batch_size = 0 THEN ReturnNull(real_batch_size)
           ELSE IF pre.early THEN OverflowPath(real_batch_size, pre.res)
           ELSE DataPath(real_batch_size)
    /\ UNCHANGED <<segVars, exprFrame>>

\* PhyBinaryRangeFilterExpr::Eval, index mode
EvalBinaryRangeIndex ==
    /\ CanEval /\ expr_.kind = "BinaryRange" /\ is_index_mode_
    /\ LET real_batch_size == GetNextBatchSize
           pre == PreCheckOverflow(real_batch_size)
       IN  IF real_batch_size = 0 THEN ReturnNull(real_batch_size)
           ELSE IF pre.early THEN OverflowPath(real_batch_size, pre.res)
           ELSE IndexPath(real_batch_size)
    /\ UNCHANGED <<segVars, exprFrame>>

NextExpr ==
    \/ EvalUnaryData
    \/ EvalUnaryIndex
    \/ EvalBinaryRangeData
    \/ EvalBinaryRangeIndex

SpecExpr == InitExpr /\ [][NextExpr]_vars

\* The result buffer of a batch is never written past its end and no chunk is
\* handed to the element function with a negative size.
NoWritePastResult == ub_seen = FALSE

\* Rows consumed so far as the cursor of the mode in use says.
ConsumedRows ==
    LET chunk == IF is_index_mode_ THEN current_index_chunk_ ELSE current_data_chunk_
        pos == IF is_index_mode_ THEN current_index_chunk_pos_
               ELSE current_data_chunk_pos_
    IN  IF segment_.type = "Growing" THEN chunk * size_per_chunk_ + pos ELSE pos

\* C1: concatenating the vectors returned by successive Eval calls yields, for
\* every row r in [0, active_count), the predicate applied to the value of row
\* r: at any time the concatenation is a prefix of that vector, and at
\* end-of-stream it is the whole of it.
C1_ConcatIsPredicate ==
    LET out == Flatten(batches)
    IN  /\ \A k \in 1..Len(out) : k <= num_rows_ /\ out[k] = Predicate(k - 1)
        /\ eval_state = "eos" => Len(out) = num_rows_
        /\ eval_state # "raised"

\* C2: pulling batches until end-of-stream terminates after finitely many
\* batches and the sizes of the returned vectors sum to exactly active_count:
\* the sum never passes active_count, no pull ends in an internal error, and at
\* end-of-stream the sum is active_count.
C2_SizesSumToActiveCount ==
    /\ SumSizes(batches) <= num_rows_
    /\ eval_state # "raised"
    /\ eval_state = "eos" => SumSizes(batches) = num_rows_

\* C3: at every Eval call GetNextBatchSize returns
\* min(batch_size, active_count - rows consumed) with the rows consumed taken
\* from the cursor of the mode in use.
C3_NextBatchSize ==
    eval_state = "running" =>
        GetNextBatchSize = Min(batch_size_, num_rows_ - ConsumedRows)

\* ============================================================== TaskQueue
\* The values the expression variables keep while the runtime is checked.
ExprIdle ==
    /\ segment_ = [type |-> "Sealed", has_index |-> FALSE]
    /\ expr_ = [kind |-> "Unary", val_ |-> 2, lower_val_ |-> 0, upper_val_ |-> 0,
                lower_inclusive_ |-> FALSE, upper_inclusive_ |-> FALSE]
    /\ num_rows_ = 0 /\ size_per_chunk_ = 0 /\ batch_size_ = 1
    /\ is_index_mode_ = FALSE /\ num_index_chunk_ = 0 /\ num_data_chunk_ = 1
    /\ current_data_chunk_ = 0 /\ current_data_chunk_pos_ = 0
    /\ current_index_chunk_ = 0 /\ current_index_chunk_pos_ = 0
    /\ batches = <<>> /\ eval_state = "running" /\ last_batch_size = -1
    /\ ub_seen = FALSE

\* a queue that pushes at the front (LIFO)
QueuePush_Front(q, e) == <<e>> \o q
\* queue_.push_back / front / pop_front
QueuePush(q, e) == Append(q, e)
QueueFront(q) == Head(q)
QueuePop(q) == Tail(q)

\* an Enqueue that leaves the consumer's promise unfulfilled
WakeConsumer_Never == UNCHANGED <<consumer_blocked_, consumer_future_>>
\* if (consumer_blocked_) { consumer_blocked_ = false; consumer_promise_.setValue(); }
WakeConsumer ==
    IF consumer_blocked_
    THEN consumer_blocked_' = FALSE /\ consumer_future_' = "ready"
    ELSE UNCHANGED <<consumer_blocked_, consumer_future_>>

\* an Enqueue that ignores closed_
EnqueueRaises_Never == FALSE
\* if (closed_) throw std::runtime_error("Consumer cursor is closed")
EnqueueRaises == closed_

\* a Dequeue that ends the stream at the first sentinel
AllProducersFinished_AnyFinished ==
    num_producers_ # <<>> /\ producers_finished_ >= 1
\* num_producers_.has_value() && producers_finished_ == num_producers_
AllProducersFinished ==
    num_producers_ # <<>> /\ producers_finished_ = num_producers_[1]

\* producers_finished++ of the sentinel branch
CountSentinel(n) == n + 1

\* TaskQueue::Close
Close == closed_' = TRUE

\* ------------------------------------------------------------------- Task
\* Task::Start: the task runs and its output drivers start at a batch boundary
TaskStart ==
    /\ task_state' = IF task_state = "Created" THEN "Running" ELSE task_state
    /\ pc_producer' = [p \in Drivers |->
                         IF p <= num_drivers THEN "boundary" ELSE "idle"]

\* an error reaches the task: it stores the error, closes its queue and
\* transitions to Failed (a task already ended keeps its state)
TaskFail ==
    /\ task_error' = (task_error \/ task_state = "Running")
    /\ task_state' = IF task_state = "Running" THEN "Failed" ELSE task_state
    /\ Close

\* the task ends normally once every driver has signalled end-of-stream
TaskMayFinish(sent) ==
    task_state' = IF task_state = "Running" /\
                     (\A q \in 1..num_drivers : sent[q])
                  THEN "Done" ELSE task_state

\* a batch boundary observes the cancel request: Cancelled, queue closed
ProducerObserveCancel(p) ==
    /\ task_state = "Running" /\ pc_producer[p] = "boundary"
    /\ cancel_requested
    /\ task_state' = "Cancelled"
    /\ Close
    /\ pc_producer' = [pc_producer EXCEPT ![p] = "stopped"]
    /\ UNCHANGED <<queue_, num_producers_, producers_finished_,
                   consumer_blocked_, consumer_future_, cursorVars, task_error,
                   cancel_requested, num_drivers, held, produced, eval_raised,
                   enq_result, sentinel_sent, logVars>>

\* the driver evaluates its next batch; the vector <<p, k>> is handed to the
\* consumer callback next
ProducerEvalBatch(p) ==
    /\ task_state = "Running" /\ pc_producer[p] = "boundary"
    /\ ~cancel_requested
    /\ produced[p] < MaxBatchesPerProducer
    /\ held' = [held EXCEPT ![p] = << <<p, produced[p] + 1>> >>]
    /\ pc_producer' = [pc_producer EXCEPT ![p] = "enqueue"]
    /\ UNCHANGED <<queueVars, cursorVars, taskVars, produced, eval_raised,
                   enq_result, sentinel_sent, logVars>>

\* the evaluator raises while producing the batch
ProducerEvalRaises(p) ==
    /\ task_state = "Running" /\ pc_producer[p] = "boundary"
    /\ ~cancel_requested
    /\ produced[p] < MaxBatchesPerProducer
    /\ eval_raised' = [eval_raised EXCEPT ![p] = TRUE]
    /\ TaskFail
    /\ pc_producer' = [pc_producer EXCEPT ![p] = "stopped"]
    /\ UNCHANGED <<queue_, num_producers_, producers_finished_,
                   consumer_blocked_, consumer_future_, cursorVars,
                   cancel_requested, num_drivers, held, produced, enq_result,
                   sentinel_sent, logVars>>

\* no more input: the driver hands nullptr to the consumer callback next
ProducerNoMoreInput(p) ==
    /\ task_state = "Running" /\ pc_producer[p] = "boundary"
    /\ ~cancel_requested
    /\ held' = [held EXCEPT ![p] = <<>>]
    /\ pc_producer' = [pc_producer EXCEPT ![p] = "enqueue"]
    /\ UNCHANGED <<queueVars, cursorVars, taskVars, produced, eval_raised,
                   enq_result, sentinel_sent, logVars>>

\* ------------------------------------------------------ TaskQueue::Enqueue
\* Enqueue(vector) with a vector: throws when closed_, else pushes and wakes
EnqueueVector(p) ==
    /\ pc_producer[p] = "enqueue" /\ held[p] # <<>>
    /\ IF EnqueueRaises
       THEN /\ enq_result' = [enq_result EXCEPT ![p] = "raised"]
            /\ TaskFail
            /\ pc_producer' = [pc_producer EXCEPT ![p] = "stopped"]
            /\ UNCHANGED <<queue_, consumer_blocked_, consumer_future_,
                           produced, enq_log>>
       ELSE /\ queue_' = QueuePush(queue_, held[p][1])
            /\ WakeConsumer
            /\ enq_result' = [enq_result EXCEPT ![p] = "kNotBlocked"]
            /\ enq_log' = Append(enq_log, held[p][1])
            /\ produced' = [produced EXCEPT ![p] = produced[p] + 1]
            /\ pc_producer' = [pc_producer EXCEPT ![p] = "boundary"]
            /\ UNCHANGED <<closed_, task_state, task_error>>
    /\ held' = [held EXCEPT ![p] = <<>>]
    /\ UNCHANGED <<num_producers_, producers_finished_, cursorVars,
                   cancel_requested, num_drivers, eval_raised, sentinel_sent,
                   deq_log>>

\* Enqueue(nullptr): counts the producer as finished and wakes the consumer
EnqueueSentinel(p) ==
    /\ pc_producer[p] = "enqueue" /\ held[p] = <<>>
    /\ producers_finished_' = CountSentinel(producers_finished_)
    /\ WakeConsumer
    /\ enq_result' = [enq_result EXCEPT ![p] = "kNotBlocked"]
    /\ sentinel_sent' = [sentinel_sent EXCEPT ![p] = TRUE]
    /\ pc_producer' = [pc_producer EXCEPT ![p] = "stopped"]
    /\ TaskMayFinish(sentinel_sent')
    /\ UNCHANGED <<queue_, num_producers_, closed_, cursorVars, task_error,
                   cancel_requested, num_drivers, held, produced, eval_raised,
                   logVars>>

\* ------------------------------------------------------ TaskQueue::Dequeue
\* the locked block of one iteration of Dequeue's loop; a returned vector or
\* nullptr becomes TaskCursor::current_
DequeueLocked ==
    /\ pc_consumer = "dequeue"
    /\ IF queue_ # <<>>
       THEN /\ current_' = <<QueueFront(queue_)>>
            /\ queue_' = QueuePop(queue_)
            /\ deq_log' = Append(deq_log, QueueFront(queue_))
            /\ pc_consumer' = "check_error"
            /\ UNCHANGED <<consumer_blocked_, consumer_future_>>
       ELSE IF AllProducersFinished
       THEN /\ current_' = <<>>
            /\ pc_consumer' = "check_error"
            /\ UNCHANGED <<queue_, deq_log, consumer_blocked_, consumer_future_>>
       ELSE /\ consumer_blocked_' = TRUE
            /\ consumer_future_' = "pending"
            /\ pc_consumer' = "wait"
            /\ UNCHANGED <<queue_, deq_log, current_>>
    /\ UNCHANGED <<num_producers_, producers_finished_, closed_, started_,
                   at_end_, move_next_result, move_next_false, dtor_cancelled,
                   taskVars, driverVars, enq_log>>

\* consumer_future_.wait() returns once the promise is fulfilled
DequeueWait ==
    /\ pc_consumer = "wait"
    /\ consumer_future_ = "ready"
    /\ pc_consumer' = "dequeue"
    /\ UNCHANGED <<queueVars, started_, at_end_, current_, move_next_result,
                   move_next_false, dtor_cancelled, taskVars, driverVars,
                   logVars>>

\* -------------------------------------------------------------- TaskCursor
\* MoveNext -> Start(), first call: Task::Start
MoveNextStart ==
    /\ pc_consumer = "idle" /\ ~started_
    /\ started_' = TRUE
    /\ TaskStart
    /\ pc_consumer' = "set_num_producers"
    /\ UNCHANGED <<queueVars, at_end_, current_, move_next_result,
                   move_next_false, dtor_cancelled, task_error,
                   cancel_requested, num_drivers, held, produced, eval_raised,
                   enq_result, sentinel_sent, logVars>>

\* Start(), second statement: queue_->SetNumProducers(...)
SetNumProducers ==
    /\ pc_consumer = "set_num_producers"
    /\ num_producers_' = <<num_drivers>>
    /\ pc_consumer' = "dequeue"
    /\ UNCHANGED <<queue_, producers_finished_, consumer_blocked_,
                   consumer_future_, closed_, started_, at_end_, current_,
                   move_next_result, move_next_false, dtor_cancelled, taskVars,
                   driverVars, logVars>>

\* MoveNext once started: Start() does nothing
MoveNextAgain ==
    /\ pc_consumer = "idle" /\ started_
    /\ pc_consumer' = "dequeue"
    /\ UNCHANGED <<queueVars, started_, at_end_, current_, move_next_result,
                   move_next_false, dtor_cancelled, taskVars, driverVars,
                   logVars>>

\* MoveNext after Dequeue returned: rethrow, or set at_end_, and return
MoveNextReturn ==
    /\ pc_consumer = "check_error"
    /\ IF task_error
       THEN /\ move_next_result' = "rethrow"
            /\ UNCHANGED <<at_end_, move_next_false>>
       ELSE IF current_ = <<>>
       THEN /\ at_end_' = TRUE
            /\ move_next_result' = "false"
            /\ move_next_false' = TRUE
       ELSE /\ move_next_result' = "true"
            /\ UNCHANGED <<at_end_, move_next_false>>
    /\ pc_consumer' = "idle"
    /\ UNCHANGED <<queueVars, started_, current_, dtor_cancelled, taskVars,
                   driverVars, logVars>>

\* a destructor that cancels unconditionally
CancelOnDestroy_Always == TRUE
\* if (task_ && !at_end_): task_ is set by the constructor
CancelOnDestroy == ~at_end_

\* ~TaskCursor
DestroyCursor ==
    /\ pc_consumer = "idle"
    /\ Close
    /\ IF CancelOnDestroy
       THEN cancel_requested' = TRUE /\ dtor_cancelled' = TRUE
       ELSE UNCHANGED <<cancel_requested, dtor_cancelled>>
    /\ pc_consumer' = "destroyed"
    /\ UNCHANGED <<queue_, num_producers_, producers_finished_,
                   consumer_blocked_, consumer_future_, started_, at_end_,
                   current_, move_next_result, move_next_false, task_state,
                   task_error, num_drivers, driverVars, logVars>>

\* the caller requests cancellation of the running task (task->RequestCancel())
RequestCancel ==
    /\ task_state = "Running" /\ ~cancel_requested
    /\ pc_consumer # "destroyed"
    /\ cancel_requested' = TRUE
    /\ UNCHANGED <<queueVars, cursorVars, task_state, task_error, num_drivers,
                   driverVars, logVars>>

InitQueue ==
    /\ ExprIdle
    /\ StoreIdle
    /\ BitsetIdle
    /\ VisitIdle
    /\ LogicIdle
    /\ LeafIdle
    /\ \E n \in Drivers : CursorInit(n)

NextQueue ==
    \/ MoveNextStart /\ UNCHANGED queueFrame
    \/ SetNumProducers /\ UNCHANGED queueFrame
    \/ MoveNextAgain /\ UNCHANGED queueFrame
    \/ DequeueLocked /\ UNCHANGED queueFrame
    \/ DequeueWait /\ UNCHANGED queueFrame
    \/ MoveNextReturn /\ UNCHANGED queueFrame
    \/ DestroyCursor /\ UNCHANGED queueFrame
    \/ RequestCancel /\ UNCHANGED queueFrame
    \/ \E p \in 1..num_drivers : ProducerObserveCancel(p) /\ UNCHANGED queueFrame
    \/ \E p \in 1..num_drivers : ProducerEvalBatch(p) /\ UNCHANGED queueFrame
    \/ \E p \in 1..num_drivers : ProducerEvalRaises(p) /\ UNCHANGED queueFrame
    \/ \E p \in 1..num_drivers : ProducerNoMoreInput(p) /\ UNCHANGED queueFrame
    \/ \E p \in 1..num_drivers : EnqueueVector(p) /\ UNCHANGED queueFrame
    \/ \E p \in 1..num_drivers : EnqueueSentinel(p) /\ UNCHANGED queueFrame

SpecQueue == InitQueue /\ [][NextQueue]_vars

\* the steps the running program takes by itself: the consumer inside MoveNext
\* and each driver thread; calling MoveNext, cancelling and destroying the
\* cursor are the caller's choice
ConsumerStep ==
    (SetNumProducers \/ DequeueLocked \/ DequeueWait \/ MoveNextReturn)
        /\ UNCHANGED queueFrame
ProducerStep(p) ==
    (ProducerObserveCancel(p) \/ ProducerEvalBatch(p) \/ ProducerEvalRaises(p)
        \/ ProducerNoMoreInput(p) \/ EnqueueVector(p) \/ EnqueueSentinel(p))
        /\ UNCHANGED queueFrame

SpecQueueFair ==
    /\ SpecQueue
    /\ WF_vars(ConsumerStep)
    /\ \A p \in Drivers : WF_vars(ProducerStep(p))

\* ------------------------------------------------------ queue claims
DequeueReturns == pc_consumer = "dequeue" /\ pc_consumer' = "check_error"
DequeueCall == pc_consumer = "dequeue" /\ pc_consumer' # "dequeue"
EnqueueCall(p) == pc_producer[p] = "enqueue" /\ pc_producer'[p] # "enqueue"
SentinelsSent == {p \in 1..num_drivers : sentinel_sent[p]}

\* C4: Dequeue returns null only when the queue is empty and every registered
\* producer has enqueued its sentinel, each sentinel moving the finished count
\* by exactly one; otherwise it returns the oldest queued vector or blocks;
\* and every vector enqueued has been returned by Dequeue before the first null.
C4_DequeueContract ==
    [][ /\ DequeueCall =>
             IF queue_ # <<>>
             THEN /\ DequeueReturns
                  /\ current_' = <<Head(queue_)>> /\ queue_' = Tail(queue_)
             ELSE IF SentinelsSent = 1..num_drivers
             THEN /\ DequeueReturns /\ current_' = <<>>
                  /\ deq_log' = enq_log /\ queue_' = <<>>
             ELSE pc_consumer' = "wait" /\ current_' = current_
        /\ \A p \in 1..num_drivers :
             (EnqueueCall(p) /\ held[p] = <<>>) =>
                 /\ producers_finished_' = producers_finished_ + 1
                 /\ SentinelsSent' = SentinelsSent \cup {p}
        /\ producers_finished_' # producers_finished_ =>
             \E p \in 1..num_drivers : EnqueueCall(p) /\ held[p] = <<>>
        /\ producers_finished_ = Cardinality(SentinelsSent)
      ]_vars
C4_Witness ==
    /\ num_drivers = 2 /\ move_next_false
    /\ Len(deq_log) >= 2 /\ producers_finished_ = 2

\* C5: vectors leave the queue in exactly the order they entered it: nothing
\* is lost, duplicated or reordered, and the batches of one pipeline are
\* dequeued in emission order.
C5_FifoOrder ==
    /\ enq_log = deq_log \o queue_
    /\ \A i, j \in 1..Len(deq_log) :
         (i < j /\ deq_log[i][1] = deq_log[j][1]) => deq_log[i][2] < deq_log[j][2]
    /\ \A i \in 1..Len(deq_log) :
         \A k \in 1..(deq_log[i][2] - 1) :
            \E j \in 1..(i - 1) : deq_log[j] = <<deq_log[i][1], k>>
C5_Witness ==
    /\ Len(deq_log) >= 3
    /\ \E i, j \in 1..Len(deq_log) : deq_log[i][1] # deq_log[j][1]
    /\ queue_ # <<>>

\* C6: the number of queued vectors never exceeds the configured maximum
\* depth (Enqueue would block at capacity instead of pushing).
C6_QueueBounded == Len(queue_) <= MaxQueueDepth

\* C7: once the requested cancel has been observed (task Cancelled, queue
\* closed), a consumer blocked in Dequeue is woken and MoveNext returns; it
\* does not stay blocked forever.
C7_CancelWakesConsumer ==
    /\ [](task_state = "Cancelled" => closed_)
    /\ (task_state = "Cancelled" /\ pc_consumer = "wait") ~> (pc_consumer = "idle")

\* C8: when an evaluator raises, its batch is never delivered, the task stores
\* the error and closes its queue, and a MoveNext in progress rethrows the
\* stored error instead of blocking forever or reporting end-of-stream.
C8_ErrorSurfaces ==
    /\ [](\A p \in 1..num_drivers : eval_raised[p] =>
            /\ task_error /\ closed_
            /\ \A i \in 1..Len(enq_log) :
                 enq_log[i][1] = p => enq_log[i][2] <= produced[p])
    /\ (task_state = "Failed" /\ pc_consumer \in {"dequeue", "wait"})
          ~> (pc_consumer = "idle" /\ move_next_result = "rethrow")

\* C9 as stated: after Close every Enqueue attempt raises and leaves the queue
\* unchanged, and the closed flag is never reset.
C9_EveryEnqueueFailsAfterClose ==
    [][ /\ \A p \in 1..num_drivers :
             (closed_ /\ EnqueueCall(p)) =>
                 enq_result'[p] = "raised" /\ queue_' = queue_
        /\ closed_ => closed_'
      ]_vars

\* C9: after Close every Enqueue of a vector raises and leaves the queue
\* and the finished count unchanged, observed by an in-flight producer at its
\* next Enqueue; an Enqueue of the end-of-stream sentinel still returns
\* kNotBlocked and counts the producer as finished without touching the
\* queued vectors; and the closed flag is never reset.
C9_VectorEnqueueFailsAfterClose ==
    [][ /\ \A p \in 1..num_drivers :
             (closed_ /\ EnqueueCall(p)) =>
                 IF held[p] # <<>>
                 THEN /\ enq_result'[p] = "raised"
                      /\ queue_' = queue_ /\ enq_log' = enq_log
                      /\ producers_finished_' = producers_finished_
                 ELSE /\ enq_result'[p] = "kNotBlocked"
                      /\ queue_' = queue_
                      /\ producers_finished_' = producers_finished_ + 1
        /\ closed_ => closed_'
      ]_vars
C9_Witness ==
    /\ closed_
    /\ \E p \in 1..num_drivers : enq_result[p] = "raised"
    /\ \E p \in 1..num_drivers : sentinel_sent[p]

\* C10: destroying the cursor closes its queue, and requests cancellation of
\* the task if and only if MoveNext has not yet returned false.
C10_DestroyClosesAndCancels ==
    pc_consumer = "destroyed" =>
        /\ closed_
        /\ dtor_cancelled <=> ~move_next_false
        /\ dtor_cancelled => cancel_requested
C10_Witness ==
    /\ pc_consumer = "destroyed" /\ dtor_cancelled
    /\ Len(deq_log) >= 1 /\ task_state = "Cancelled"


\* ======================================================= ConcurrentVector
\* sizes of a chunk, element values a source holds (a fresh chunk holds 0),
\* and sizeof(Type) of the scalar types int8_t / int16_t
ColChunkSizes == {1, 2}
ColValues == {1, 2}
TypeSizes == {1, 2}

\* Chunk(Dim * size_per_chunk_) / InitVectorPtr<T>(size_per_chunk)
NewChunk(n) == [k \in 1..n |-> 0]

\* the arguments of one fill_chunk call
FillArgs(chunk_id, chunk_offset, element_count, source_offset) ==
    [chunk_id |-> chunk_id, chunk_offset |-> chunk_offset,
     element_count |-> element_count, source_offset |-> source_offset]

\* set_data, "the middle": while (element_count >= size_per_chunk_)
RECURSIVE SetDataMiddle(_, _, _, _)
SetDataMiddle(chunk_id, element_count, source_offset, spc) ==
    IF element_count >= spc
    THEN <<FillArgs(chunk_id, 0, spc, source_offset)>> \o
         SetDataMiddle(chunk_id + 1, element_count - spc, source_offset + spc, spc)
    ELSE IF element_count > 0        \* "the final"
    THEN <<FillArgs(chunk_id, 0, element_count, source_offset)>>
    ELSE <<>>

\* set_data: the fill_chunk calls it makes, in order
SetData(element_offset, element_count, spc) ==
    LET chunk_id == element_offset \div spc
        chunk_offset == element_offset % spc
    IN  IF chunk_offset + element_count <= spc
        THEN <<FillArgs(chunk_id, chunk_offset, element_count, 0)>>
        ELSE LET first_size == spc - chunk_offset
             IN  <<FillArgs(chunk_id, chunk_offset, first_size, 0)>> \o
                 SetDataMiddle(chunk_id + 1, element_count - first_size,
                               spc - chunk_offset, spc)

\* fill_chunk of the plain implementation:
\* std::copy_n(source + source_offset * Dim, element_count * Dim, ptr + chunk_offset * Dim)
FillChunkPlain(chunk, f, source) ==
    [k \in 1..Len(chunk) |->
        IF k - 1 >= f.chunk_offset /\ k - 1 < f.chunk_offset + f.element_count
        THEN source[f.source_offset + (k - 1 - f.chunk_offset) + 1]
        ELSE chunk[k]]

\* fill_chunk of the velox-vector implementation:
\* memcpy(ptr + chunk_offset * sizeof(Type), source, element_count * sizeof(Type))
\* with ptr an element pointer: the write starts at element
\* chunk_offset * sizeof(Type) and always copies from the start of source
VeloxFirst(f, sz) == f.chunk_offset * sz
FillChunkVelox(chunk, f, source, sz) ==
    [k \in 1..Len(chunk) |->
        IF k - 1 >= VeloxFirst(f, sz) /\ k - 1 < VeloxFirst(f, sz) + f.element_count
        THEN source[(k - 1 - VeloxFirst(f, sz)) + 1]
        ELSE chunk[k]]
\* the memcpy runs past the end of the chunk's buffer
FillChunkVeloxOverruns(chunk, f, sz) ==
    VeloxFirst(f, sz) + f.element_count > Len(chunk)

\* upper_div(element_offset + element_count, size_per_chunk_) of grow_to_at_least
WriterChunkCount ==
    UpperDiv(w_offset + Len(w_source), col_size_per_chunk_)

\* the rows a write of source at offset should leave in the column
RowsAfterWrite(rows, offset, source) ==
    [r \in DOMAIN rows |->
        IF r >= offset /\ r < offset + Len(source)
        THEN source[r - offset + 1] ELSE rows[r]]

\* -------------------------------------------------------------- the writer
\* set_data_raw, entry: element_count == 0 returns at once
BeginSetDataRaw ==
    /\ pc_writer = "idle" /\ appends_done < MaxAppends
    /\ \E offset \in 0..(MaxColChunks * col_size_per_chunk_ - 1),
          n \in 0..MaxAppendLen :
         /\ offset + n <= MaxColChunks * col_size_per_chunk_
         /\ \E source \in [1..n -> ColValues] :
              /\ w_offset' = offset
              /\ w_source' = source
              /\ col_rows' = RowsAfterWrite(col_rows, offset, source)
              /\ col_chunks' =
                   IF n = 0 THEN col_chunks
                   ELSE IF UpperDiv(offset + n, col_size_per_chunk_) > col_chunks
                   THEN UpperDiv(offset + n, col_size_per_chunk_)
                   ELSE col_chunks
              /\ pc_writer' = IF n = 0 THEN "idle" ELSE "grow"
              /\ appends_done' = IF n = 0 THEN appends_done + 1 ELSE appends_done
    /\ w_created' = {}
    /\ UNCHANGED <<lockedVecVars, columnVars, w_fills, readerVars, col_ub>>

\* emplace_to_at_least: if (size <= size_) return, read without the lock
GrowCheck ==
    /\ pc_writer = "grow"
    /\ pc_writer' = IF WriterChunkCount <= size_ THEN "set_data" ELSE "lock"
    /\ UNCHANGED <<lockedVecVars, columnVars, w_offset, w_source, w_fills,
                   w_created, readerVars, storeLogVars>>

\* std::lock_guard lck(mutex_)
GrowLock ==
    /\ pc_writer = "lock" /\ mutex_ = "free"
    /\ mutex_' = "exclusive"
    /\ pc_writer' = "loop"
    /\ UNCHANGED <<size_, vec_, columnVars, w_offset, w_source, w_fills,
                   w_created, readerVars, storeLogVars>>

\* vec_.emplace_back(...): the velox specialisation keeps its chunks in a
\* std::vector, whose growth may move the slots a reader holds a reference to
GrowEmplace ==
    /\ pc_writer = "loop" /\ Len(vec_) < WriterChunkCount
    /\ vec_' = Append(vec_, NewChunk(col_size_per_chunk_))
    /\ w_created' = w_created \cup {Len(vec_)}
    /\ IF is_velox_vector /\ pc_reader = "deref"
       THEN r_ref_valid' \in {r_ref_valid, FALSE}
       ELSE r_ref_valid' = r_ref_valid
    /\ pc_writer' = "inc"
    /\ UNCHANGED <<size_, mutex_, columnVars, w_offset, w_source, w_fills,
                   pc_reader, r_index, r_result, r_unfilled, storeLogVars>>

\* ++size_
GrowIncSize ==
    /\ pc_writer = "inc"
    /\ size_' = size_ + 1
    /\ pc_writer' = "loop"
    /\ UNCHANGED <<vec_, mutex_, columnVars, w_offset, w_source, w_fills,
                   w_created, readerVars, storeLogVars>>

\* the loop ends and the lock_guard is released
GrowUnlock ==
    /\ pc_writer = "loop" /\ Len(vec_) >= WriterChunkCount
    /\ mutex_' = "free"
    /\ pc_writer' = "set_data"
    /\ UNCHANGED <<size_, vec_, columnVars, w_offset, w_source, w_fills,
                   w_created, readerVars, storeLogVars>>

\* set_data: splits the write into its fill_chunk calls
SetDataSplit ==
    /\ pc_writer = "set_data"
    /\ w_fills' = SetData(w_offset, Len(w_source), col_size_per_chunk_)
    /\ pc_writer' = "fill"
    /\ UNCHANGED <<lockedVecVars, columnVars, w_offset, w_source, w_created,
                   readerVars, storeLogVars>>

\* one fill_chunk call; after the last one set_data_raw returns
FillChunk ==
    /\ pc_writer = "fill" /\ w_fills # <<>> /\ mutex_ = "free"
    /\ LET f == Head(w_fills)
       IN  IF ~(f.chunk_id < size_)             \* Assert(chunk_id < chunk_max_size)
           THEN /\ pc_writer' = "raised"
                /\ UNCHANGED <<vec_, col_ub, w_fills, appends_done>>
           ELSE /\ vec_' = [vec_ EXCEPT ![f.chunk_id + 1] =
                              IF is_velox_vector
                              THEN FillChunkVelox(@, f, w_source, sizeof_type)
                              ELSE FillChunkPlain(@, f, w_source)]
                /\ col_ub' = (col_ub \/ (is_velox_vector /\
                     FillChunkVeloxOverruns(vec_[f.chunk_id + 1], f, sizeof_type)))
                /\ w_fills' = Tail(w_fills)
                /\ pc_writer' = IF Tail(w_fills) = <<>> THEN "idle" ELSE "fill"
                /\ appends_done' = IF Tail(w_fills) = <<>>
                                   THEN appends_done + 1 ELSE appends_done
    /\ UNCHANGED <<size_, mutex_, columnVars, w_offset, w_source, w_created,
                   readerVars, col_rows, col_chunks>>

\* ThreadSafeVector::clear under the exclusive lock
ClearChunks ==
    /\ pc_writer = "idle" /\ mutex_ = "free"
    /\ appends_done < MaxAppends /\ vec_ # <<>>
    /\ size_' = 0
    /\ vec_' = <<>>
    /\ r_ref_valid' = FALSE
    /\ col_rows' = [r \in DOMAIN col_rows |-> 0]
    /\ col_chunks' = 0
    /\ appends_done' = appends_done + 1
    /\ UNCHANGED <<mutex_, columnVars, writerVars, pc_reader, r_index,
                   r_result, r_unfilled, col_ub>>

\* -------------------------------------------------------------- the reader
\* chunk i is one the running set_data_raw appended and has not finished writing
BeingFilled(i) ==
    /\ i \in w_created
    /\ \/ /\ pc_writer \in {"loop", "inc", "set_data"}
          /\ \E k \in DOMAIN SetData(w_offset, Len(w_source), col_size_per_chunk_) :
                SetData(w_offset, Len(w_source), col_size_per_chunk_)[k].chunk_id = i
       \/ /\ pc_writer = "fill"
          /\ \E k \in DOMAIN w_fills : w_fills[k].chunk_id = i

\* a reader calls operator[](index)
ReadBegin ==
    /\ pc_reader = "idle"
    /\ \E i \in 0..MaxColChunks : r_index' = i
    /\ r_result' = "none" /\ r_unfilled' = FALSE /\ r_ref_valid' = FALSE
    /\ pc_reader' = "assert"
    /\ UNCHANGED <<lockedVecVars, columnVars, writerVars, storeLogVars>>

\* Assert(index < size_), before the lock is taken
ReadAssert ==
    /\ pc_reader = "assert"
    /\ IF r_index < size_
       THEN pc_reader' = "lock" /\ r_result' = r_result
       ELSE pc_reader' = "idle" /\ r_result' = "raised"
    /\ UNCHANGED <<lockedVecVars, columnVars, writerVars, r_index,
                   r_ref_valid, r_unfilled, storeLogVars>>

\* std::shared_lock lck(mutex_); return vec_[index]; the lock ends with the
\* return. vec_[index] past the end of the list is an out-of-range read.
ReadLocked ==
    /\ pc_reader = "lock" /\ mutex_ = "free"
    /\ IF r_index < Len(vec_)
       THEN r_result' = "ref" /\ r_ref_valid' = TRUE /\ pc_reader' = "deref"
       ELSE r_result' = "out_of_range_read" /\ r_ref_valid' = FALSE
            /\ pc_reader' = "idle"
    /\ UNCHANGED <<lockedVecVars, columnVars, writerVars, r_index, r_unfilled,
                   storeLogVars>>

\* the reader uses the chunk behind the reference it was given
ReadDeref ==
    /\ pc_reader = "deref"
    /\ r_unfilled' = (~r_ref_valid \/ BeingFilled(r_index))
    /\ pc_reader' = "idle"
    /\ UNCHANGED <<lockedVecVars, columnVars, writerVars, r_index, r_result,
                   r_ref_valid, storeLogVars>>

InitStore ==
    /\ ExprIdle
    /\ CursorInit(1)
    /\ col_size_per_chunk_ \in ColChunkSizes
    /\ is_velox_vector \in BOOLEAN
    /\ sizeof_type \in TypeSizes
    /\ ColumnInit
    /\ BitsetIdle
    /\ VisitIdle
    /\ LogicIdle
    /\ LeafIdle

NextStore ==
    \/ BeginSetDataRaw /\ UNCHANGED storeFrame
    \/ GrowCheck /\ UNCHANGED storeFrame
    \/ GrowLock /\ UNCHANGED storeFrame
    \/ GrowEmplace /\ UNCHANGED storeFrame
    \/ GrowIncSize /\ UNCHANGED storeFrame
    \/ GrowUnlock /\ UNCHANGED storeFrame
    \/ SetDataSplit /\ UNCHANGED storeFrame
    \/ FillChunk /\ UNCHANGED storeFrame
    \/ ClearChunks /\ UNCHANGED storeFrame
    \/ ReadBegin /\ UNCHANGED storeFrame
    \/ ReadAssert /\ UNCHANGED storeFrame
    \/ ReadLocked /\ UNCHANGED storeFrame
    \/ ReadDeref /\ UNCHANGED storeFrame

SpecStore == InitStore /\ [][NextStore]_vars


\* row r of the column as the chunk list stores it
StoredRow(r) ==
    vec_[(r \div col_size_per_chunk_) + 1][(r % col_size_per_chunk_) + 1]

\* C11: whenever the published chunk count is greater than i, chunk i is in
\* the chunk list and the append that created it has finished writing its
\* elements; a reader never uses a chunk slot that is missing or being filled.
C11_VisibleChunksAreWritten ==
    /\ \A i \in 0..(size_ - 1) : i < Len(vec_) /\ ~BeingFilled(i)
    /\ ~r_unfilled

\* C12: once set_data_raw(offset, source, n) has returned, the column has
\* grown to ceil((offset + n) / size_per_chunk) chunks and row offset + k holds
\* source[k] at chunk (offset + k) div size_per_chunk, position (offset + k)
\* mod size_per_chunk, every other row being unchanged, for the plain and for
\* the velox-vector implementation.
C12_SetDataRawStoresSource ==
    pc_writer = "idle" =>
        /\ Len(vec_) = col_chunks
        /\ \A r \in 0..(Len(vec_) * col_size_per_chunk_ - 1) :
              StoredRow(r) = col_rows[r]
        /\ ~col_ub

\* C13: an access to chunk i returns a reference only if i is less than the
\* number of chunks stored in the chunk list, and for any i at or beyond that
\* number it raises instead of reading the chunk list.
C13_ChunkAccessChecked ==
    [][ (pc_reader \in {"assert", "lock"} /\ pc_reader' \in {"idle", "deref"}) =>
            IF r_index < Len(vec_)
            THEN r_result' \in {"ref", "raised"}
            ELSE r_result' = "raised"
      ]_vars


\* ================================================= bitset assembly
\* lengths of the bool chunks, and the period m of their contents: element
\* i of a chunk is true iff i is a multiple of m
BitChunkLens == {0, 3, 61, 64, 130}
BitChunkPeriods == {1, 2, 3}
BoolChunk(len, m) == [i \in 1..len |-> (i - 1) % m = 0]

InitBitset ==
    /\ ExprIdle
    /\ CursorInit(1)
    /\ StoreIdle
    /\ BitsetIdle
    /\ VisitIdle
    /\ LogicIdle
    /\ LeafIdle

\* AppendOneChunk(&bitset_holder, chunk, len)
AppendChunk ==
    /\ Len(bool_chunks) < MaxBitChunks
    /\ \E len \in BitChunkLens, m \in BitChunkPeriods :
         /\ bitset_holder' = AppendOneChunk(bitset_holder, BoolChunk(len, m))
         /\ bool_chunks' = Append(bool_chunks, BoolChunk(len, m))
    /\ UNCHANGED bitsetFrame

NextBitset == AppendChunk

SpecBitset == InitBitset /\ [][NextBitset]_vars

\* C14: after any sequence of AppendOneChunk calls on an initially empty
\* bitset, the bitset length is the sum of the chunk lengths and bit j is the
\* j-th bool of the concatenated chunks.
C14_BitsetIsConcatenation ==
    LET cat == Flatten(bool_chunks)
    IN  /\ bitset_holder.num_bits = Len(cat)
        /\ bitset_holder.num_bits = SumSizes(bool_chunks)
        /\ Len(bitset_holder.blocks) =
             UpperDiv(bitset_holder.num_bits, BITSET_BLOCK_BIT_SIZE)
        /\ \A j \in 1..Len(cat) : TestBit(bitset_holder, j - 1) = cat[j]
C14_Witness ==
    /\ Len(bool_chunks) = 3
    /\ Len(bool_chunks[1]) = 3 /\ Len(bool_chunks[2]) = 130
    /\ Len(bool_chunks[3]) = 61
    /\ bool_chunks[2] = BoolChunk(130, 3)
    /\ bitset_holder.num_bits = 194


\* ================================================= ExecPlanNodeVisitor
\* the two paths that invoke the filter: VectorVisitorImpl (vector search)
\* and visit(RetrievePlanNode) (retrieve, count retrieve)
NodeFilters == {"filter_plannode_", "predicate_", "none"}
EvalBatchSizes == {1, 2}
\* one truth value for each of n rows
BoolSeqs(n) == [1..n -> BOOLEAN]

\* the bits of a bitset, first bit first
ToBools(bs) == [j \in 1..bs.num_bits |-> TestBit(bs, j - 1)]
\* the bitset holding the given bits
FromBools(bits) == AppendBit(EmptyBitset, bits, 0, Len(bits))

\* dynamic_bitset::resize(n): the bits held are kept, new bits are false
resize(bs, n) ==
    FromBools([j \in 1..n |-> j <= bs.num_bits /\ TestBit(bs, j - 1)])
\* dynamic_bitset::flip()
flip(bs) == FromBools([j \in 1..bs.num_bits |-> ~TestBit(bs, j - 1)])
\* dynamic_bitset::all(): true for an empty bitset
all(bs) == \A j \in 1..bs.num_bits : TestBit(bs, j - 1)
\* dynamic_bitset::count()
count(bs) == Cardinality({j \in 1..bs.num_bits : TestBit(bs, j - 1)})

\* the segment's masks: in the bitset handed to them a set bit excludes its
\* row (ExecPlanNodeVisitor.cpp:204), so the rows left selected are ANDed
\* with the rows the mask lets through: the bit of every masked row is set
MaskRows(bs, masked) ==
    FromBools([j \in 1..bs.num_bits |->
                 TestBit(bs, j - 1) \/ (j <= Len(masked) /\ masked[j])])
mask_with_timestamps(bs) == MaskRows(bs, hidden_rows)
mask_with_delete(bs) == MaskRows(bs, deleted_rows)

\* ExecExprVisitor(...).call_child(predicate): the legacy evaluator's output,
\* one bit per active row, set where the row matches
call_child == FromBools(predicate_rows)

\* rows for which P holds among the rows visible at the timestamp
VisibleMatches ==
    Cardinality({r \in 1..active_count :
                   predicate_rows[r] /\ ~deleted_rows[r] /\ ~hidden_rows[r]})

\* what a dereference of the null bitset_holder may leave behind
GarbageBitsets ==
    {EmptyBitset} \cup {FromBools(g) : g \in BoolSeqs(active_count)}

\* the plan node, the segment snapshot and the batch size of one visit
PlanInputs(kind, filter, n, P, D, H, b) ==
    /\ node_kind' = kind
    /\ node_filter' = filter
    /\ active_count' = n
    /\ predicate_rows' = P /\ deleted_rows' = D /\ hidden_rows' = H
    /\ eval_batch_size' = b

\* VectorVisitorImpl up to the declaration of bitset_holder (163-185)
VectorVisitorImpl ==
    /\ pc_visit = "idle"
    /\ \E filter \in NodeFilters, n \in 0..MaxActiveCount, b \in EvalBatchSizes :
         \E P \in BoolSeqs(n), D \in BoolSeqs(n), H \in BoolSeqs(n) :
            /\ PlanInputs("search", filter, n, P, D, H, b)
            /\ IF n = 0
               THEN pc_visit' = "done" /\ visit_result' = "empty"
               ELSE pc_visit' = "filter" /\ visit_result' = "none"
    /\ holder_allocated' = FALSE
    /\ bitset_holder' = EmptyBitset
    /\ UNCHANGED <<bool_chunks, next_row, cnt, null_deref, visitFrame>>

\* visit(RetrievePlanNode) up to the resize of bitset_holder (233-257)
VisitRetrievePlanNode ==
    /\ pc_visit = "idle"
    /\ \E kind \in {"retrieve", "count"}, filter \in NodeFilters,
          n \in 0..MaxActiveCount, b \in EvalBatchSizes :
         \E P \in BoolSeqs(n), D \in BoolSeqs(n), H \in BoolSeqs(n) :
            /\ PlanInputs(kind, filter, n, P, D, H, b)
            /\ IF n = 0
               THEN /\ pc_visit' = "done"
                    /\ visit_result' = IF kind = "count" THEN "count" ELSE "empty"
                    /\ bitset_holder' = EmptyBitset
               ELSE /\ pc_visit' = "filter"
                    /\ visit_result' = "none"
                    /\ bitset_holder' = IF kind = "count"
                                        THEN resize(EmptyBitset, n)
                                        ELSE EmptyBitset
    /\ holder_allocated' = TRUE
    /\ cnt' = 0
    /\ UNCHANGED <<bool_chunks, next_row, null_deref, visitFrame>>

\* node.filter_plannode_.has_value(): ExecuteExprNode is entered with
\* bitset_holder as it is (186-188, 259-260)
ExecuteExprNode ==
    /\ pc_visit = "filter"
    /\ node_filter = "filter_plannode_"
    /\ pc_visit' = "exec"
    /\ UNCHANGED <<planVars, holder_allocated, next_row, visit_result, cnt,
                   null_deref, bitsetVars, visitFrame>>

\* one round of the loop of ExecuteExprNode: task->Next(), AppendOneChunk
TaskNext ==
    /\ pc_visit = "exec"
    /\ IF next_row >= active_count
       THEN /\ pc_visit' = "mask"
            /\ UNCHANGED <<next_row, bitsetVars, visit_result, null_deref>>
       ELSE LET upto == Min(next_row + eval_batch_size, active_count)
                chunk == [i \in 1..(upto - next_row) |->
                            predicate_rows[next_row + i]]
            IN  /\ next_row' = upto
                /\ bool_chunks' = Append(bool_chunks, chunk)
                /\ IF holder_allocated
                   THEN /\ bitset_holder' = AppendOneChunk(bitset_holder, chunk)
                        /\ pc_visit' = "exec"
                        /\ UNCHANGED <<visit_result, null_deref>>
                   ELSE \* result->size() on a null result
                        /\ null_deref' = TRUE
                        /\ \/ /\ pc_visit' = "done"
                              /\ visit_result' = "crashed"
                              /\ UNCHANGED bitset_holder
                           \/ /\ pc_visit' = "exec"
                              /\ bitset_holder' \in GarbageBitsets
                              /\ UNCHANGED visit_result
    /\ UNCHANGED <<planVars, holder_allocated, cnt, visitFrame>>

\* node.predicate_.has_value(): the legacy evaluator's bitset, flipped
\* (190-194, 262-266)
LegacyPredicate ==
    /\ pc_visit = "filter"
    /\ node_filter = "predicate_"
    /\ bitset_holder' = flip(call_child)
    /\ holder_allocated' = TRUE
    /\ pc_visit' = "mask"
    /\ UNCHANGED <<planVars, next_row, visit_result, cnt, null_deref,
                   bool_chunks, visitFrame>>

\* neither filter: make_unique<BitsetType>(active_count, false) on the
\* search path (196), nothing on the retrieve path
NoFilter ==
    /\ pc_visit = "filter"
    /\ node_filter = "none"
    /\ IF node_kind = "search"
       THEN bitset_holder' = resize(EmptyBitset, active_count)
            /\ holder_allocated' = TRUE
       ELSE UNCHANGED <<bitset_holder, holder_allocated>>
    /\ pc_visit' = "mask"
    /\ UNCHANGED <<planVars, next_row, visit_result, cnt, null_deref,
                   bool_chunks, visitFrame>>

\* mask_with_timestamps, then mask_with_delete, on *bitset_holder
\* (199-202, 270-273)
MaskBitset ==
    /\ pc_visit = "mask"
    /\ IF holder_allocated
       THEN /\ bitset_holder' =
                 mask_with_delete(mask_with_timestamps(bitset_holder))
            /\ pc_visit' = "decide"
            /\ UNCHANGED <<visit_result, null_deref>>
       ELSE \* bitset_holder->size(), *bitset_holder on a null pointer
            /\ null_deref' = TRUE
            /\ \/ /\ pc_visit' = "done"
                  /\ visit_result' = "crashed"
                  /\ UNCHANGED bitset_holder
               \/ /\ pc_visit' = "decide"
                  /\ bitset_holder' \in GarbageBitsets
                  /\ UNCHANGED visit_result
    /\ UNCHANGED <<planVars, holder_allocated, next_row, cnt, bool_chunks,
                   visitFrame>>

\* VectorVisitorImpl from the all() test on (204-218)
SearchOrEmpty ==
    /\ pc_visit = "decide"
    /\ node_kind = "search"
    /\ IF holder_allocated
       THEN /\ visit_result' = IF all(bitset_holder) THEN "empty"
                               ELSE "vector_search"
            /\ UNCHANGED null_deref
       ELSE \* bitset_holder->all() on a null pointer
            /\ null_deref' = TRUE
            /\ visit_result' \in {"crashed", "empty", "vector_search"}
    /\ pc_visit' = "done"
    /\ UNCHANGED <<planVars, holder_allocated, next_row, cnt, bitsetVars,
                   visitFrame>>

\* visit(RetrievePlanNode) from the all() test on (275-298)
RetrieveOrCount ==
    /\ pc_visit = "decide"
    /\ node_kind \in {"retrieve", "count"}
    /\ IF all(bitset_holder) /\ node_kind # "count"
       THEN visit_result' = "empty" /\ UNCHANGED <<cnt, bitset_holder>>
       ELSE IF node_kind = "count"
       THEN /\ cnt' = bitset_holder.num_bits - count(bitset_holder)
            /\ visit_result' = "count"
            /\ UNCHANGED bitset_holder
       ELSE /\ bitset_holder' = flip(bitset_holder)
            /\ visit_result' = "rows"
            /\ UNCHANGED cnt
    /\ pc_visit' = "done"
    /\ UNCHANGED <<planVars, holder_allocated, next_row, null_deref,
                   bool_chunks, visitFrame>>

InitVisit ==
    /\ ExprIdle
    /\ CursorInit(1)
    /\ StoreIdle
    /\ BitsetIdle
    /\ VisitIdle
    /\ LogicIdle
    /\ LeafIdle

NextVisit ==
    \/ VectorVisitorImpl
    \/ VisitRetrievePlanNode
    \/ ExecuteExprNode
    \/ TaskNext
    \/ LegacyPredicate
    \/ NoFilter
    \/ MaskBitset
    \/ SearchOrEmpty
    \/ RetrieveOrCount

SpecVisit == InitVisit /\ [][NextVisit]_vars

\* C15: on every path that runs the filter as a filter plan node (vector
\* search, retrieve, count retrieve), the bitset handed to
\* mask_with_timestamps and mask_with_delete is allocated and has exactly
\* active_count bits.
C15_MaskedBitsetHasActiveCountBits ==
    (pc_visit = "mask" /\ node_filter = "filter_plannode_") =>
        /\ holder_allocated
        /\ bitset_holder.num_bits = active_count

\* C16: on the vector-search path with a filter (filter plan node or legacy
\* predicate), the empty result is returned without vector search when no
\* visible row satisfies the filter, and vector search is invoked when at
\* least one does.
C16_SearchIffSomeRowMatches ==
    (pc_visit = "done" /\ node_kind = "search" /\ node_filter # "none") =>
        visit_result = IF VisibleMatches = 0 THEN "empty" ELSE "vector_search"

\* C17: the number of rows a retrieve reports as selected (the value of a
\* count retrieve, the cardinality of the bitset of a row retrieve) is the
\* number of rows for which the predicate holds among the visible rows.
C17_SelectedCountIsVisibleMatches ==
    (pc_visit = "done" /\ node_kind \in {"retrieve", "count"}
        /\ node_filter # "none") =>
        CASE visit_result = "count" -> cnt = VisibleMatches
          [] visit_result = "rows" -> count(bitset_holder) = VisibleMatches
          [] OTHER -> VisibleMatches = 0


\* ================================================= logical expression nodes
\* ------------------------------------------------- PhyLogicalBinaryExpr
LogicalOpTypes == {"And", "Or", "Xor", "Minus"}

\* a bool promoted to int, and an int converted to bool by the assignment
BoolToInt(b) == IF b THEN 1 ELSE 0
IntToBool(x) == x # 0

\* one round of LogicalElementFunc<op>: left[i] op= right[i], computed on
\* the promoted ints and converted back to bool
ElementOp(op, l, r) ==
    CASE op = "And" -> IntToBool(BoolToInt(l) * BoolToInt(r))
      [] op = "Or" -> IntToBool(BoolToInt(l) + BoolToInt(r) - BoolToInt(l) * BoolToInt(r))
      [] op = "Xor" -> IntToBool((BoolToInt(l) + BoolToInt(r)) % 2)
      [] op = "Minus" -> IntToBool(BoolToInt(l) - BoolToInt(r))

\* LogicalElementFunc<op>()(left, right, n): the left vector afterwards
LogicalElementFunc(op, left_data, right_data, n) ==
    [i \in 1..n |-> ElementOp(op, left_data[i], right_data[i])]

\* PhyLogicalBinaryExpr::Eval on children that return L and R
LogicalBinaryEval ==
    /\ pc_logic = "idle"
    /\ \E op \in LogicalOpTypes, n \in 0..MaxVecLen :
         \E L \in BoolSeqs(n), R \in BoolSeqs(n) :
            /\ op_type_' = op
            /\ ldata' = L
            /\ rdata' = R
            /\ eval_result' = LogicalElementFunc(op, L, R, Len(L))
    /\ pc_logic' = "done"
    /\ UNCHANGED <<conjunctVars, logicFrame>>

\* ------------------------------------------------ PhyConjunctFilterExpr
AllTrue(vec) == \A i \in 1..Len(vec) : vec[i]
AllFalse(vec) == \A i \in 1..Len(vec) : ~vec[i]

\* ConjunctElementFunc<is_and>()(input_result, result): result afterwards
ConjunctElementFunc(is_and, input_data, res_data) ==
    [i \in 1..Len(res_data) |->
        IF is_and THEN ElementOp("And", res_data[i], input_data[i])
        ELSE ElementOp("Or", res_data[i], input_data[i])]

\* the contents of std::make_shared<FlatVector>(DataType::BOOL, n): its
\* storage comes from InitScalarFieldData, which fixes the length only
FreshVectors(n) == BoolSeqs(n)

\* PhyConjunctFilterExpr::Eval is entered; inputs_ stands for what each
\* child's Eval returns for this batch
ConjunctEvalBegin ==
    /\ pc_logic = "idle"
    /\ \E is_and \in BOOLEAN, n \in 0..MaxVecLen, k \in 1..MaxInputs :
         \E children \in [1..k -> BoolSeqs(n)] :
            /\ is_and_' = is_and
            /\ inputs_' = children
            /\ child_cursor' = [c \in 1..k |-> 0]
    /\ loop_i' = 0
    /\ pc_logic' = "loop"
    /\ UNCHANGED <<binaryVars, flat_result, active_rows, eval_result,
                   logicFrame>>

\* one round of the loop of Eval: the child is evaluated (its cursor moves
\* on by the rows it processed), the result vector is made in round 0,
\* UpdateResult works on the local flat_result
ConjunctEvalInput ==
    /\ pc_logic = "loop"
    /\ LET input_result == inputs_[loop_i + 1]
           skip == IF is_and_ THEN AllFalse(input_result)
                   ELSE AllTrue(input_result)
       IN  \E res \in IF loop_i = 0 THEN FreshVectors(Len(input_result))
                      ELSE {eval_result} :
              IF skip
              THEN \* UpdateResult: result = input_result; return 0
                   /\ flat_result' = input_result
                   /\ eval_result' = res
                   /\ active_rows' = 0
                   /\ pc_logic' = "done"
              ELSE \* UpdateResult: func(input_result, result); return size
                   /\ flat_result' = ConjunctElementFunc(is_and_, input_result, res)
                   /\ eval_result' = flat_result'
                   /\ active_rows' = Len(res)
                   /\ pc_logic' = IF loop_i + 1 = Len(inputs_) THEN "done"
                                  ELSE "loop"
    /\ child_cursor' = [child_cursor EXCEPT
                          ![loop_i + 1] = @ + Len(inputs_[loop_i + 1])]
    /\ loop_i' = loop_i + 1
    /\ UNCHANGED <<binaryVars, is_and_, inputs_, logicFrame>>

InitLogic ==
    /\ ExprIdle
    /\ CursorInit(1)
    /\ StoreIdle
    /\ BitsetIdle
    /\ VisitIdle
    /\ LogicIdle
    /\ LeafIdle

NextLogic ==
    \/ LogicalBinaryEval
    \/ ConjunctEvalBegin
    \/ ConjunctEvalInput

SpecLogic == InitLogic /\ [][NextLogic]_vars

\* the first child whose batch result stops the loop (all-false for a
\* conjunction, all-true for a disjunction), 0 if there is none
StoppingInput ==
    LET stops == {k \in 1..Len(inputs_) :
                    IF is_and_ THEN AllFalse(inputs_[k]) ELSE AllTrue(inputs_[k])}
    IN  IF stops = {} THEN 0
        ELSE CHOOSE k \in stops : \A j \in stops : k <= j

\* C18: LogicalBinary leaves in the left vector L[i] AND R[i] for And,
\* L[i] OR R[i] for Or, L[i] XOR R[i] for Xor and L[i] AND NOT R[i] for
\* Minus, every element a bool.
C18_LogicalBinaryPerElement ==
    (pc_logic = "done" /\ op_type_ # None) =>
        /\ Len(eval_result) = Len(ldata)
        /\ \A i \in 1..Len(ldata) :
             /\ eval_result[i] \in BOOLEAN
             /\ eval_result[i] =
                  CASE op_type_ = "And" -> ldata[i] /\ rdata[i]
                    [] op_type_ = "Or" -> ldata[i] \/ rdata[i]
                    [] op_type_ = "Xor" -> ldata[i] # rdata[i]
                    [] op_type_ = "Minus" -> ldata[i] /\ ~rdata[i]

\* C19: when a child of a conjunction returns an all-false batch (all-true
\* for a disjunction), the result returned for the batch is that child's
\* vector and no later child is evaluated.
C19_ShortCircuitReturnsChild ==
    (pc_logic = "done" /\ Len(inputs_) > 0 /\ StoppingInput > 0) =>
        /\ loop_i = StoppingInput
        /\ eval_result = inputs_[StoppingInput]

\* C20: when no child stops the loop, the result of a conjunction is the
\* element-wise AND of all children's results and that of a disjunction
\* their element-wise OR.
C20_ConjunctIsElementwise ==
    (pc_logic = "done" /\ Len(inputs_) > 0 /\ StoppingInput = 0) =>
        /\ Len(eval_result) = Len(inputs_[1])
        /\ \A i \in 1..Len(eval_result) :
             eval_result[i] =
                IF is_and_ THEN \A k \in 1..Len(inputs_) : inputs_[k][i]
                ELSE \E k \in 1..Len(inputs_) : inputs_[k][i]


\* ================================================= leaf evaluators, kernels
\* ------------------------------------------------- PhyUnaryRangeFilterExpr
UnaryOpTypes == {"Equal", "NotEqual", "GreaterThan", "LessThan",
                 "GreaterEqual", "LessEqual"}
\* int64 literals around the domain of int8_t, and values of an INT8 column
UnaryLiterals == {Int8Min - 2, Int8Min - 1, Int8Min, 0, Int8Max, Int8Max + 1,
                  Int8Max + 2}
Int8Values == {Int8Min, -1, 0, Int8Max}

\* GetValueFromProto<int8_t>: static_cast<int8_t>(value_proto.int64_val()),
\* the low 8 bits read as a signed value
GetValueFromProtoInt8(v) ==
    ((v - Int8Min) % (Int8Max - Int8Min + 1)) + Int8Min

\* one round of UnaryElementFunc<T, op> for each op: res[i] = src[i] op val
UnaryElementOp(op, x, val) ==
    CASE op = "Equal" -> x = val
      [] op = "NotEqual" -> x # val
      [] op = "GreaterThan" -> x > val
      [] op = "LessThan" -> x < val
      [] op = "GreaterEqual" -> x >= val
      [] op = "LessEqual" -> x <= val

\* PhyUnaryRangeFilterExpr::Eval on an INT8 column, one batch of data: the
\* literal is converted to the column type and compared with every row, in
\* data mode by UnaryElementFunc and in index mode by the index queried
\* with the same converted literal
ExecRangeVisitorImpl ==
    /\ pc_leaf = "idle"
    /\ \E op \in UnaryOpTypes, v \in UnaryLiterals, index_mode \in BOOLEAN,
          n \in 1..MaxLeafRows :
         \E data \in [1..n -> Int8Values] :
            /\ leaf_call' = [fn |-> "UnaryRange", op |-> op, literal |-> v,
                             index_mode |-> index_mode, data |-> data]
            /\ leaf_out' =
                 [status |-> "ok",
                  res |-> [i \in 1..n |->
                             UnaryElementOp(op, data[i],
                                              GetValueFromProtoInt8(v))]]
    /\ pc_leaf' = "done"
    /\ UNCHANGED leafFrame

\* ------------------------------------------------------ EqualVal kernels
\* res after EqualVal<tier>(src, size, val, res), where res held res0:
\*  - EqualValSSE4<int64_t>: 2 lanes; the vector loop runs i = 0, 2, ...
\*    while i < num_chunk (size / 2) and writes res[index++] twice per
\*    round; the scalar loop starts at 2 * num_chunk
\*  - EqualValAVX2<int64_t>: 4 lanes; the mask is taken from data, so bit k
\*    is the sign bit of src[i + k]; the scalar loop starts at 4 * num_chunk
\*  - EqualValAVX2<float>: the body is empty
EqualVal(kernel, src, size, val, res0) ==
    [k \in 1..size |->
        CASE kernel = "EqualValSSE4<int64_t>" ->
                IF k - 1 < 2 * UpperDiv(size \div 2, 2) THEN src[k] = val
                ELSE IF k - 1 >= 2 * (size \div 2) THEN src[k] = val
                ELSE res0[k]
          [] kernel = "EqualValAVX2<int64_t>" ->
                IF k - 1 < 4 * (size \div 4) THEN src[k] < 0
                ELSE src[k] = val
          [] kernel = "EqualValAVX2<float>" -> res0[k]]

\* one call of an equality kernel on a result buffer holding res0
EqualValCall ==
    /\ pc_leaf = "idle"
    /\ \E kernel \in {"EqualValSSE4<int64_t>", "EqualValAVX2<int64_t>",
                      "EqualValAVX2<float>"},
          size \in 0..(MaxLeafRows + 3), val \in {0, 1}, init \in BOOLEAN :
         \E src \in [1..size -> {-1, 0, 1}] :
            /\ leaf_call' = [fn |-> "EqualVal", kernel |-> kernel,
                             src |-> src, val |-> val]
            /\ leaf_out' =
                 [status |-> "ok",
                  res |-> EqualVal(kernel, src, size, val,
                                   [k \in 1..size |-> init])]
    /\ pc_leaf' = "done"
    /\ UNCHANGED leafFrame

\* ------------------------------------------------------ FindTerm kernels
\* StrCmpSSE4(s1, s2): 0 for equal strings, else the sign of the first
\* differing byte; a string stands as its rank in byte order
StrCmpSSE4(s1, s2) == IF s1 < s2 THEN 0 - 1 ELSE IF s1 > s2 THEN 1 ELSE 0

\* FindTermSSE4<T>(src, vec_size, val):
\*  - int64_t: pairs src[2i], src[2i + 1] compared at once, then the odd
\*    last element
\*  - std::string: if (StrCmpSSE4(src[i].c_str(), val.c_str())) return true
\*  - std::string_view: if (!StrCmpSSE4(src[i].data(), val.data())) return true
FindTermSSE4(type, src, vec_size, val) ==
    CASE type = "int64_t" ->
            \/ \E i \in 0..((vec_size \div 2) - 1) :
                  src[2 * i + 1] = val \/ src[2 * i + 2] = val
            \/ (vec_size % 2 = 1 /\ src[2 * (vec_size \div 2) + 1] = val)
      [] type = "std::string" ->
            \E i \in 1..vec_size : StrCmpSSE4(src[i], val) # 0
      [] type = "std::string_view" ->
            \E i \in 1..vec_size : ~(StrCmpSSE4(src[i], val) # 0)

\* one call of find_term
FindTermCall ==
    /\ pc_leaf = "idle"
    /\ \E type \in {"int64_t", "std::string", "std::string_view"},
          n \in 0..(MaxLeafRows + 1), val \in {1, 2} :
         \E src \in [1..n -> {1, 2, 3}] :
            /\ leaf_call' = [fn |-> "FindTerm", type |-> type, src |-> src,
                             val |-> val]
            /\ leaf_out' = [status |-> "ok",
                            res |-> <<FindTermSSE4(type, src, n, val)>>]
    /\ pc_leaf' = "done"
    /\ UNCHANGED leafFrame

\* ------------------------------------------------- PhyCompareFilterExpr
\* CompareElementFunc<T, U, op>()(left, right, size, res): every round
\* evaluates left[i] op right[i] as an expression statement and assigns
\* nothing, so res is afterwards what it was
CompareElementFunc(op, left_data, right_data, size, res) ==
    [i \in 1..size |->
        LET compared == UnaryElementOp(op, left_data[i], right_data[i])
        IN  res[i]]

\* one batch of a column-to-column comparison in data mode: the func handed
\* to ProcessBothDataChunks works on the rows of both columns and on the
\* result buffer of the batch
ProcessBothDataChunks ==
    /\ pc_leaf = "idle"
    /\ \E op \in UnaryOpTypes, n \in 1..MaxLeafRows, init \in BOOLEAN :
         \E left_data \in [1..n -> {0, 1, 2}], right_data \in [1..n -> {0, 1, 2}] :
            /\ leaf_call' = [fn |-> "Compare", op |-> op, left |-> left_data,
                             right |-> right_data]
            /\ leaf_out' =
                 [status |-> "ok",
                  res |-> CompareElementFunc(op, left_data, right_data, n,
                                             [k \in 1..n |-> init])]
    /\ pc_leaf' = "done"
    /\ UNCHANGED leafFrame

\* --------------------------------------------- PhyJsonContainsFilterExpr
\* execute_sub_batch of ExecArrayContains for one row: res[i] = true and
\* break leave the inner loop only; res[i] = false follows in every case
ExecArrayContains(array, elements) ==
    LET found == \E j \in 1..Len(array) : array[j] \in elements
    IN  IF found THEN FALSE ELSE FALSE

\* executor of ExecJsonContains for one row whose nested path is an array
ExecJsonContains(array, elements) ==
    \E j \in 1..Len(array) : array[j] \in elements

\* executor of ExecJsonContainsAll for one row: the literals left after
\* erasing every element of the array
ExecJsonContainsAll(array, elements) ==
    elements \ {array[j] : j \in 1..Len(array)} = {}

\* EvalJsonContainsForDataSegment on one batch of rows, the literals all of
\* type val_type.  The set of literals is filled through GetValueFromProto:
\*  - Contains / ContainsAny with std::string literals insert string_views
\*    of temporaries (GetValueFromProto<std::string> returns by value), so
\*    every lookup reads freed storage
\*  - ContainsAll calls GetValueFromProto<GetType>, which for std::string
\*    literals is GetValueFromProto<std::string_view>: PanicInfo(Unsupported)
JsonContainsEval ==
    /\ pc_leaf = "idle"
    /\ \E how \in {<<"Contains", "ARRAY">>, <<"Contains", "JSON">>,
                    <<"ContainsAll", "JSON">>},
          val_type \in {"bool", "int64_t", "double", "std::string"},
          vals \in (SUBSET {1, 2, 3}) \ {{}}, n \in 1..MaxLeafRows :
         \E data \in [1..n -> UNION {[1..m -> {1, 2, 3}] : m \in 0..2}] :
            /\ leaf_call' = [fn |-> "JsonContains", op |-> how[1],
                             column |-> how[2], val_type |-> val_type,
                             vals |-> vals, data |-> data]
            /\ IF how[1] = "ContainsAll"
               THEN leaf_out' =
                      IF val_type = "std::string"
                      THEN [status |-> "raised", res |-> <<>>]
                      ELSE [status |-> "ok",
                            res |-> [i \in 1..n |->
                                       ExecJsonContainsAll(data[i], vals)]]
               ELSE IF val_type = "std::string"
               THEN \E garbage \in [1..n -> BOOLEAN] :
                       leaf_out' = [status |-> "ok", res |-> garbage]
               ELSE leaf_out' =
                      [status |-> "ok",
                       res |-> [i \in 1..n |->
                                  IF how[2] = "ARRAY"
                                  THEN ExecArrayContains(data[i], vals)
                                  ELSE ExecJsonContains(data[i], vals)]]
    /\ pc_leaf' = "done"
    /\ UNCHANGED leafFrame

\* --------------------------------------------------- leaf Eval dispatch
DataTypes ==
    {"BOOL", "INT8", "INT16", "INT32", "INT64", "FLOAT", "DOUBLE",
     "VARCHAR", "JSON", "ARRAY"}

\* executor of ExecTermJsonVariableInField for one row: the scan stops with
\* false at the first element that is not of the literal's type (val.error(),
\* written 0 here) and with true at the first element equal to the literal
ExecTermJsonVariableInField(array, target_val) ==
    \E j \in 1..Len(array) :
        /\ array[j] = target_val
        /\ \A k \in 1..(j - 1) : array[k] # 0

\* PhyTermFilterExpr::Eval with is_in_field_ set and one literal.  The scalar
\* cases assign result and break; case JSON assigns result and, having no
\* break, falls into default: PanicInfo(DataTypeInvalid).
PhyTermFilterExprEval ==
    /\ pc_leaf = "idle"
    /\ \E data_type \in DataTypes, n \in 1..MaxLeafRows, val \in {1, 2} :
         \/ /\ data_type = "JSON"
            /\ \E data \in [1..n -> UNION {[1..m -> {0, 1, 2}] : m \in 0..2}] :
                 /\ leaf_call' = [fn |-> "Term", data_type |-> data_type,
                                  val |-> val, data |-> data]
                 /\ leaf_out' =
                      [status |-> "raised",
                       res |-> [i \in 1..n |->
                                  ExecTermJsonVariableInField(data[i], val)]]
         \/ /\ data_type # "JSON"
            /\ \E data \in [1..n -> {0, 1, 2}] :
                 /\ leaf_call' = [fn |-> "Term", data_type |-> data_type,
                                  val |-> val, data |-> data]
                 /\ leaf_out' =
                      IF data_type = "ARRAY"
                      THEN [status |-> "raised", res |-> <<>>]
                      ELSE [status |-> "ok",
                            res |-> [i \in 1..n |-> data[i] = val]]
    /\ pc_leaf' = "done"
    /\ UNCHANGED leafFrame

\* PhyExistsFilterExpr::Eval in data mode; data[i] is data[i].exist(pointer).
\* case JSON assigns result and, having no break, falls into default:
\* PanicInfo; every other column type is the default case.
PhyExistsFilterExprEval ==
    /\ pc_leaf = "idle"
    /\ \E data_type \in DataTypes, n \in 1..MaxLeafRows :
         \E data \in [1..n -> BOOLEAN] :
            /\ leaf_call' = [fn |-> "Exists", data_type |-> data_type,
                             data |-> data]
            /\ leaf_out' = [status |-> "raised",
                            res |-> IF data_type = "JSON" THEN data ELSE <<>>]
    /\ pc_leaf' = "done"
    /\ UNCHANGED leafFrame

\* PhyBinaryRangeFilterExpr::Eval; computed is the vector returned by
\* ExecRangeVisitorImpl<T>.  case JSON is a bare break: the call returns with
\* result as the caller passed it.
PhyBinaryRangeFilterExprEval ==
    /\ pc_leaf = "idle"
    /\ \E data_type \in DataTypes, n \in 1..MaxLeafRows :
         \E computed \in [1..n -> BOOLEAN] :
            /\ leaf_call' = [fn |-> "BinaryRange", data_type |-> data_type,
                             data |-> computed]
            /\ leaf_out' =
                 CASE data_type = "JSON" -> leaf_out
                   [] data_type = "ARRAY" ->
                        [status |-> "raised", res |-> <<>>]
                   [] OTHER -> [status |-> "ok", res |-> computed]
    /\ pc_leaf' = "done"
    /\ UNCHANGED leafFrame

InitLeaf ==
    /\ ExprIdle
    /\ CursorInit(1)
    /\ StoreIdle
    /\ BitsetIdle
    /\ VisitIdle
    /\ LogicIdle
    /\ LeafIdle

NextLeaf ==
    \/ ExecRangeVisitorImpl
    \/ EqualValCall
    \/ FindTermCall
    \/ ProcessBothDataChunks
    \/ JsonContainsEval
    \/ PhyTermFilterExprEval
    \/ PhyExistsFilterExprEval
    \/ PhyBinaryRangeFilterExprEval

SpecLeaf == InitLeaf /\ [][NextLeaf]_vars

\* C21: for an INT8 column and a literal above the type's maximum, >, >= and
\* = are false for every row and <, <= and != are true for every row; for a
\* literal below the minimum the two groups change places; in data mode and
\* in index mode.
C21_UnaryOverflowCollapses ==
    (pc_leaf = "done" /\ leaf_call.fn = "UnaryRange") =>
        \A i \in 1..Len(leaf_out.res) :
            /\ leaf_call.literal > Int8Max =>
                 leaf_out.res[i] =
                    (leaf_call.op \in {"LessThan", "LessEqual", "NotEqual"})
            /\ leaf_call.literal < Int8Min =>
                 leaf_out.res[i] =
                    (leaf_call.op \in {"GreaterThan", "GreaterEqual", "NotEqual"})

\* C22: an equality kernel leaves res[i] = (src[i] == val) for every i below
\* size, for lengths that are a multiple of the lane count and lengths that
\* are not.
C22_EqualValMatchesReference ==
    (pc_leaf = "done" /\ leaf_call.fn = "EqualVal") =>
        /\ Len(leaf_out.res) = Len(leaf_call.src)
        /\ \A i \in 1..Len(leaf_call.src) :
             leaf_out.res[i] = (leaf_call.src[i] = leaf_call.val)

\* C23: find_term(src, n, val) returns true if and only if some src[i] with
\* i below n equals val, for integer and for string element types and for
\* every n, 0 included.
C23_FindTermIffPresent ==
    (pc_leaf = "done" /\ leaf_call.fn = "FindTerm") =>
        leaf_out.res[1] =
            (\E i \in 1..Len(leaf_call.src) : leaf_call.src[i] = leaf_call.val)

\* C24: for a column-to-column comparison in data mode, element i of the
\* output batch is left[i] OP right[i] for each of the six comparison
\* operators.
C24_CompareIsPerElement ==
    (pc_leaf = "done" /\ leaf_call.fn = "Compare") =>
        \A i \in 1..Len(leaf_call.left) :
            leaf_out.res[i] =
                CASE leaf_call.op = "Equal" -> leaf_call.left[i] = leaf_call.right[i]
                  [] leaf_call.op = "NotEqual" -> leaf_call.left[i] # leaf_call.right[i]
                  [] leaf_call.op = "GreaterThan" -> leaf_call.left[i] > leaf_call.right[i]
                  [] leaf_call.op = "LessThan" -> leaf_call.left[i] < leaf_call.right[i]
                  [] leaf_call.op = "GreaterEqual" -> leaf_call.left[i] >= leaf_call.right[i]
                  [] leaf_call.op = "LessEqual" -> leaf_call.left[i] <= leaf_call.right[i]

\* C25: for json_contains / json_contains_any, on JSON columns and on ARRAY
\* columns, a row is true if and only if at least one literal is among the
\* elements of the row's array.
C25_ContainsAnyIffSomeLiteral ==
    (pc_leaf = "done" /\ leaf_call.fn = "JsonContains"
        /\ leaf_call.op = "Contains") =>
        /\ leaf_out.status = "ok"
        /\ \A i \in 1..Len(leaf_call.data) :
             leaf_out.res[i] =
                (\E j \in 1..Len(leaf_call.data[i]) :
                    leaf_call.data[i][j] \in leaf_call.vals)

\* C26: json_contains_all with same-typed literals of type bool, int64,
\* double or string completes without raising, and a row is true if and only
\* if every literal is among the elements of the row's array.
C26_ContainsAllIffEveryLiteral ==
    (pc_leaf = "done" /\ leaf_call.fn = "JsonContains"
        /\ leaf_call.op = "ContainsAll") =>
        /\ leaf_out.status = "ok"
        /\ \A i \in 1..Len(leaf_call.data) :
             leaf_out.res[i] =
                (\A v \in leaf_call.vals :
                    \E j \in 1..Len(leaf_call.data[i]) :
                        leaf_call.data[i][j] = v)

\* C27: a Term filter on a JSON column with is_in_field set returns a bool
\* vector in which a row is true if and only if the literal equals some
\* element, at any position, of the row's JSON array.
C27_TermInFieldIffElementPresent ==
    (pc_leaf = "done" /\ leaf_call.fn = "Term"
        /\ leaf_call.data_type = "JSON") =>
        /\ leaf_out.status = "ok"
        /\ Len(leaf_out.res) = Len(leaf_call.data)
        /\ \A i \in 1..Len(leaf_call.data) :
             leaf_out.res[i] =
                (\E j \in 1..Len(leaf_call.data[i]) :
                    leaf_call.data[i][j] = leaf_call.val)

\* C30: a leaf Eval made while rows remain either raises or sets its result
\* to a bool vector of next_batch_size elements; it raises only for a column
\* type outside its switch; Term and Exists over JSON return their vector
\* without raising; no handled column type returns with the result unset.
C30_LeafEvalSetsResultOrRaises ==
    (pc_leaf = "done" /\ leaf_call.fn \in {"Term", "Exists", "BinaryRange"}) =>
        /\ leaf_out.status \in {"ok", "raised"}
        /\ leaf_out.status = "ok" =>
              Len(leaf_out.res) = Len(leaf_call.data)
        /\ (leaf_call.fn \in {"Term", "Exists"}
               /\ leaf_call.data_type = "JSON") => leaf_out.status = "ok"
        /\ leaf_out.status = "raised" =>
              \/ leaf_call.data_type = "ARRAY"
              \/ leaf_call.fn = "Exists" /\ leaf_call.data_type # "JSON"

C29_ChildCursorsAdvanceTogether ==
    (pc_logic = "done" /\ Len(inputs_) > 0) =>
        \A k \in 1..Len(inputs_) : child_cursor[k] = Len(inputs_[1])

====
